---- MODULE Spec2Model ----
(***************************************************************************)
(* Context lifecycle and pruning engine of the `ask` CLI                   *)
(* (internal/context: Store, Pruner, Manager; cmd/ask: main).              *)
(*                                                                         *)
(* One run of the CLI loads the per-directory store, performs one          *)
(* operation (reset, info, or [analyze +] query) and exits.  The model     *)
(* follows one run from a context file left by earlier runs.               *)
(*                                                                         *)
(* Texts are modelled by a tag and their length in bytes: the size         *)
(* estimator and the limits only look at len(content).  A Go pointer that  *)
(* may be nil is a sequence of length 0 (nil) or 1.  Times are in days.    *)
(***************************************************************************)
EXTENDS Integers, Sequences, FiniteSets, TLC

\* ---- PruningLimits (pruner.go, DefaultPruningLimits) ----
MaxMessages == 100
MaxTokens == 25000
MaxAgeDays == 30
SoftMaxMessages == 40
SoftMaxTokens == 15000
TargetMessages == 24
TargetTokens == 10000

\* ---- emergency thresholds (Manager.checkEmergencyPrune) ----
emergencyTokens == 37500
emergencyMessages == 150

\* "keep last 4 messages minimum" (pruneHard) and the adaptive floor
KeepRecent == 4
MinAIMessages == 10

\* ---- texts, and the lengths that bound them in the model ----
\* (field bad: how many of the len bytes are not part of valid UTF-8)
Text(tag, n) == [tag |-> tag, len |-> n, bad |-> 0]
InvalidText(tag, n, k) == [tag |-> tag, len |-> n, bad |-> k]
SmallLen == 12
MidLen == 2000
BigLen == 50000

\* what the user may type, and what the service may answer to it
UserQueries == {Text("q", SmallLen), Text("Q", BigLen)}
Responses == {Text("r", SmallLen), Text("R", BigLen)}

\* ---- stores a previous run (or an older release) may have left on disk ----
InitCounts ==
    {0, KeepRecent - 1, MinAIMessages - 2, TargetMessages - 1, TargetMessages + 4,
     SoftMaxMessages - 2, MaxMessages - 3, MaxMessages - 2,
     emergencyMessages + 1}
InitSystemRuns == {0, TargetMessages - 2, TargetMessages + 2}
SmallCache == [FileTree |-> 700, ReadmeContent |-> 350, PrimaryConfigs |-> 2]
HugeCache == [FileTree |-> 260000, ReadmeContent |-> 115000, PrimaryConfigs |-> 2]
\* content length, timestamp (days), analysis snapshot and number of
\* earlier prunes of such a store
InitShapes ==
    {[len |-> SmallLen, stamp |-> 0, cache |-> <<>>, prunes |-> 0],
     [len |-> SmallLen, stamp |-> 0 - MaxAgeDays, cache |-> <<HugeCache>>,
      prunes |-> 1],
     [len |-> SmallLen, stamp |-> 0 - (MaxAgeDays + 1),
      cache |-> <<SmallCache>>, prunes |-> 2],
     [len |-> MidLen, stamp |-> 0, cache |-> <<HugeCache>>, prunes |-> 0],
     [len |-> MidLen, stamp |-> 0 - (MaxAgeDays + 1), cache |-> <<>>,
      prunes |-> 3],
     [len |-> BigLen, stamp |-> 0, cache |-> <<>>, prunes |-> 1]}

\* ---- Message, Store ----
NewMessage(role, content, t) ==
    [Role |-> role, Content |-> content, Timestamp |-> t]

\* Store.EstimateTokens: sum of len(content)/4 over the messages
\* (the loop is summed by halves of the index range lo..hi)
RECURSIVE SumTokens(_, _, _)
SumTokens(msgs, lo, hi) ==
    IF lo > hi THEN 0
    ELSE IF lo = hi THEN msgs[lo].Content.len \div 4
    ELSE LET mid == (lo + hi) \div 2
         IN SumTokens(msgs, lo, mid) + SumTokens(msgs, mid + 1, hi)

EstimateTokens(s) == SumTokens(s.Messages, 1, Len(s.Messages))

NewStore(t) ==
    [CreatedAt |-> t, UpdatedAt |-> t,
     LastAnalysisAt |-> <<>>, AnalysisCache |-> <<>>,
     Messages |-> <<>>,
     Metadata |-> [TotalMessages |-> 0, TotalTokensEstimate |-> 0,
                   PruneCount |-> 0]]

\* (variant: the size estimate of the metadata is not refreshed)
AddMessage_StaleEstimate(s, role, content, t) ==
    LET msgs == Append(s.Messages, NewMessage(role, content, t))
    IN [s EXCEPT !.Messages = msgs, !.Metadata.TotalMessages = Len(msgs)]

\* Store.AddMessage
AddMessage(s, role, content, t) ==
    LET msgs == Append(s.Messages, NewMessage(role, content, t))
        s1 == [s EXCEPT !.Messages = msgs]
    IN [s1 EXCEPT !.Metadata.TotalMessages = Len(msgs),
                  !.Metadata.TotalTokensEstimate = EstimateTokens(s1)]

\* (variant: the prune counter is cleared as well)
StoreReset_ClearsCount(s) ==
    [s EXCEPT !.Messages = <<>>,
              !.AnalysisCache = <<>>,
              !.LastAnalysisAt = <<>>,
              !.Metadata = [TotalMessages |-> 0, TotalTokensEstimate |-> 0,
                            PruneCount |-> 0]]

\* Store.Reset
StoreReset(s) ==
    [s EXCEPT !.Messages = <<>>,
              !.AnalysisCache = <<>>,
              !.LastAnalysisAt = <<>>,
              !.Metadata = [TotalMessages |-> 0, TotalTokensEstimate |-> 0,
                            PruneCount |-> s.Metadata.PruneCount]]

\* ---- Pruner ----
\* (variant: the age of the oldest message is looked at after the soft limits)
ShouldPruneReason_AgeLast(s, t) ==
    LET n == Len(s.Messages)
        tokens == EstimateTokens(s)
    IN IF n >= MaxMessages THEN "hard limit: messages"
       ELSE IF tokens >= MaxTokens THEN "hard limit: tokens"
       ELSE IF n >= SoftMaxMessages THEN "soft limit: messages"
       ELSE IF tokens >= SoftMaxTokens THEN "soft limit: tokens"
       ELSE IF n > 0 /\ t - s.Messages[1].Timestamp > MaxAgeDays
            THEN "hard limit: age"
       ELSE ""

\* reason of ShouldPrune, named by the fixed part of its format string;
\* "" when no pruning is needed
ShouldPruneReason(s, t) ==
    LET n == Len(s.Messages)
        tokens == EstimateTokens(s)
    IN IF n >= MaxMessages THEN "hard limit: messages"
       ELSE IF tokens >= MaxTokens THEN "hard limit: tokens"
       ELSE IF n > 0 /\ t - s.Messages[1].Timestamp > MaxAgeDays
            THEN "hard limit: age"
       ELSE IF n >= SoftMaxMessages THEN "soft limit: messages"
       ELSE IF tokens >= SoftMaxTokens THEN "soft limit: tokens"
       ELSE ""

\* (variant: an old first message alone does not ask for pruning)
ShouldPrune_IgnoresAge(s, t) ==
    ShouldPruneReason(s, t) \notin {"", "hard limit: age"}

ShouldPrune(s, t) == ShouldPruneReason(s, t) # ""

\* strings.Contains(reason, word) for the reasons above: the numbers that
\* Sprintf fills in add no letters, and "messages" contains "age"
Mentions(reason, word) ==
    CASE word = "hard limit" ->
            reason \in {"hard limit: messages", "hard limit: tokens",
                        "hard limit: age"}
      [] word = "soft limit" ->
            reason \in {"soft limit: messages", "soft limit: tokens"}
      [] word = "messages" ->
            reason \in {"hard limit: messages", "soft limit: messages"}
      [] word = "tokens" ->
            reason \in {"hard limit: tokens", "soft limit: tokens"}
      [] word = "age" ->
            reason \in {"hard limit: age", "hard limit: messages",
                        "soft limit: messages"}
      [] OTHER -> FALSE

\* (variant: the hard message ceiling does not rule the adaptive path out)
canUseAIPruning_NoHardCheck(s) ==
    /\ ~(Len(s.Messages) < MinAIMessages)
    /\ ~(EstimateTokens(s) >= MaxTokens)

canUseAIPruning(s) ==
    /\ ~(Len(s.Messages) < MinAIMessages)
    /\ ~(Len(s.Messages) >= MaxMessages)
    /\ ~(EstimateTokens(s) >= MaxTokens)

\* ---- the text of an answer to the pruning request ----
\* A response is a sequence of lexical pieces: "ws" (a run of white space),
\* "fence" (three backquotes), "json" (the fence's tag), "[", "]", ",", "int" (an
\* integer literal, value v), "null", and "word" (any other text).
Tok(t) == [t |-> t, v |-> 0]
Num(i) == [t |-> "int", v |-> i]

\* strings.TrimSpace
TrimSpace(x) ==
    LET n == Len(x)
        lo == CHOOSE i \in 1..(n + 1) :
                 /\ \A j \in 1..(i - 1) : x[j].t = "ws"
                 /\ i = n + 1 \/ x[i].t # "ws"
        hi == CHOOSE i \in 0..n :
                 /\ \A j \in (i + 1)..n : x[j].t = "ws"
                 /\ i = 0 \/ x[i].t # "ws"
    IN SubSeq(x, lo, hi)

\* strings.TrimPrefix, strings.TrimSuffix
TrimPrefix(x, pre) ==
    IF Len(x) >= Len(pre) /\ SubSeq(x, 1, Len(pre)) = pre
    THEN SubSeq(x, Len(pre) + 1, Len(x)) ELSE x

TrimSuffix(x, suf) ==
    IF Len(x) >= Len(suf) /\ SubSeq(x, Len(x) - Len(suf) + 1, Len(x)) = suf
    THEN SubSeq(x, 1, Len(x) - Len(suf)) ELSE x

\* json.Unmarshal(data, &indices) with indices a nil []int: white space
\* between the pieces is skipped; the literal null is accepted and leaves
\* the slice nil; an array element null leaves its element 0; any other
\* value, and any text after the value, is an error
Unmarshal(x) ==
    LET j == SelectSeq(x, LAMBDA k : k.t # "ws")
        n == Len(j)
    IN IF n = 1 /\ j[1].t = "null" THEN [ok |-> TRUE, indices |-> <<>>]
       ELSE IF n = 2 /\ j[1].t = "[" /\ j[2].t = "]"
       THEN [ok |-> TRUE, indices |-> <<>>]
       ELSE IF /\ n >= 3 /\ n % 2 = 1
               /\ j[1].t = "[" /\ j[n].t = "]"
               /\ \A i \in 2..(n - 1) :
                     IF i % 2 = 0 THEN j[i].t \in {"int", "null"}
                     ELSE j[i].t = ","
       THEN [ok |-> TRUE,
             indices |-> [k \in 1..((n - 1) \div 2) |->
                            IF j[2 * k].t = "int" THEN j[2 * k].v ELSE 0]]
       ELSE [ok |-> FALSE, indices |-> <<>>]

parsePruningResponse(response) ==
    LET r1 == TrimSpace(response)
        r2 == TrimPrefix(r1, <<Tok("fence"), Tok("json")>>)
        r3 == TrimPrefix(r2, <<Tok("fence")>>)
        r4 == TrimSuffix(r3, <<Tok("fence")>>)
        r5 == TrimSpace(r4)
    IN Unmarshal(r5)

\* ---- Pruner.ShouldPreserve ----
\* For the preservation rule a content is known by the set of notable
\* substrings it contains (field tag): "fence" (three backquotes) and the
\* words below in the spelling they have in the content.
LowerOf(word) ==
    CASE word = "Analysis" -> "analysis"
      [] word = "File Tree" -> "file tree"
      [] word = "README" -> "readme"
      [] word = "Readme" -> "readme"
      [] word = "ARCHITECTURE" -> "architecture"
      [] OTHER -> word

\* strings.ToLower, strings.Contains
ToLower(content) == [content EXCEPT !.tag = {LowerOf(w) : w \in content.tag}]
Contains(content, sub) == sub \in content.tag

keywords == {"analysis", "file tree", "README", "structure", "architecture"}

ShouldPreserve(s, msg, index) ==
    IF index >= Len(s.Messages) - KeepRecent THEN TRUE
    ELSE IF Contains(msg.Content, "fence") THEN TRUE
    ELSE \E keyword \in keywords : Contains(ToLower(msg.Content), keyword)

\* the map toRemove of removeMessagesByIndices
IndexSet(indices) == {indices[k] : k \in 1..Len(indices)}

\* (variant: the 1-based position is looked up in the map)
KeptPositions_OffByOne(n, rm) ==
    SelectSeq([i \in 1..n |-> i], LAMBDA i : i \notin rm)

\* positions (1-based) of the messages whose 0-based index is not in rm
KeptPositions(n, rm) ==
    SelectSeq([i \in 1..n |-> i], LAMBDA i : (i - 1) \notin rm)

\* make([]Message, 0, len(Messages)-len(indices)) panics on a negative cap
removePanics(msgs, indices) == Len(msgs) - Len(indices) < 0

\* (variant: a kept message is put in front of those kept before it)
removeMessagesByIndices_Prepends(msgs, indices) ==
    LET kept == KeptPositions(Len(msgs), IndexSet(indices))
    IN [k \in 1..Len(kept) |-> msgs[kept[Len(kept) + 1 - k]]]

removeMessagesByIndices(msgs, indices) ==
    LET kept == KeptPositions(Len(msgs), IndexSet(indices))
    IN [k \in 1..Len(kept) |-> msgs[kept[k]]]

\* pruneHard: the leading run of system messages
SystemRun(msgs) ==
    CHOOSE k \in 0..Len(msgs) :
        /\ \A i \in 1..k : msgs[i].Role = "system"
        /\ k = Len(msgs) \/ msgs[k + 1].Role # "system"

pruneHardToRemove(s) ==
    LET n == Len(s.Messages)
    IN IF n - TargetMessages >= n - KeepRecent
       THEN n - KeepRecent ELSE n - TargetMessages

pruneHardNoop(s) ==
    \/ Len(s.Messages) <= TargetMessages
    \/ pruneHardToRemove(s) <= 0

\* Messages[startIdx+toRemove:] panics when the low bound exceeds len
pruneHardPanics(s) ==
    /\ ~pruneHardNoop(s)
    /\ SystemRun(s.Messages) + pruneHardToRemove(s) > Len(s.Messages)

\* (variant: the prune counter is not incremented)
pruneHard_NoCount(s) ==
    IF pruneHardNoop(s) THEN s
    ELSE LET from == SystemRun(s.Messages) + pruneHardToRemove(s)
             msgs == SubSeq(s.Messages, from + 1, Len(s.Messages))
             s1 == [s EXCEPT !.Messages = msgs]
         IN [s1 EXCEPT !.Metadata.TotalMessages = Len(msgs),
                       !.Metadata.TotalTokensEstimate = EstimateTokens(s1)]

pruneHard(s) ==
    IF pruneHardNoop(s) THEN s
    ELSE LET from == SystemRun(s.Messages) + pruneHardToRemove(s)
             msgs == SubSeq(s.Messages, from + 1, Len(s.Messages))
             s1 == [s EXCEPT !.Messages = msgs]
         IN [s1 EXCEPT !.Metadata.PruneCount = s.Metadata.PruneCount + 1,
                       !.Metadata.TotalMessages = Len(msgs),
                       !.Metadata.TotalTokensEstimate = EstimateTokens(s1)]

\* (variant: the listed messages are numbered consecutively)
PromptLabels_NumbersListedOnly(msgs) ==
    LET listed == SelectSeq([i \in 1..Len(msgs) |-> i],
                            LAMBDA i : msgs[i].Role # "system")
    IN [k \in 1..Len(listed) |-> k - 1]

\* buildPruningPrompt: the labels [i] of the transcript, in order: the
\* range index of every message that is not a system message
PromptLabels(msgs) ==
    LET listed == SelectSeq([i \in 1..Len(msgs) |-> i],
                            LAMBDA i : msgs[i].Role # "system")
    IN [k \in 1..Len(listed) |-> listed[k] - 1]

\* the part of pruneWithAI after a parsed answer
applyIndices(s, indices) ==
    IF Len(indices) > 0
    THEN LET msgs == removeMessagesByIndices(s.Messages, indices)
             s1 == [s EXCEPT !.Messages = msgs]
         IN [s1 EXCEPT !.Metadata.PruneCount = s.Metadata.PruneCount + 1,
                       !.Metadata.TotalMessages = Len(msgs),
                       !.Metadata.TotalTokensEstimate = EstimateTokens(s1)]
    ELSE s

\* ---- Manager: emergency guard ----
\* int(float64(len)/3.5) is floor(2*len/7) for the lengths at hand
estimateAnalysisCacheTokens(s) ==
    IF s.AnalysisCache = <<>> THEN 0
    ELSE LET c == s.AnalysisCache[1]
         IN ((2 * c.FileTree) \div 7) + ((2 * c.ReadmeContent) \div 7)
            + c.PrimaryConfigs * 2

\* (variant: the guard triggers at the hard ceilings)
emergencyTriggered_AtHardCeilings(tokens, messages) ==
    tokens >= MaxTokens \/ messages >= MaxMessages

\* the test of checkEmergencyPrune, made before and after the shedding
emergencyTriggered(tokens, messages) ==
    tokens > emergencyTokens \/ messages > emergencyMessages

\* (variant: a triggered guard drops the snapshot whatever its share)
guardShed_WhateverShare(s) ==
    IF /\ emergencyTriggered(EstimateTokens(s), Len(s.Messages))
       /\ s.AnalysisCache # <<>>
    THEN [s EXCEPT !.AnalysisCache = <<>>, !.LastAnalysisAt = <<>>]
    ELSE s

\* the store after the cache-shedding step of checkEmergencyPrune
guardShed(s) ==
    LET tokens == EstimateTokens(s)
    IN IF /\ emergencyTriggered(tokens, Len(s.Messages))
          /\ s.AnalysisCache # <<>>
          /\ estimateAnalysisCacheTokens(s) > tokens \div 2
       THEN [s EXCEPT !.AnalysisCache = <<>>, !.LastAnalysisAt = <<>>]
       ELSE s

\* whether checkEmergencyPrune reaches pruner.pruneHard()
guardPrunes(s) ==
    /\ emergencyTriggered(EstimateTokens(s), Len(s.Messages))
    /\ emergencyTriggered(EstimateTokens(guardShed(s)), Len(s.Messages))

\* ---- prompt.BuildMessages ----
NonSystem(msgs) ==
    LET kept == SelectSeq(msgs, LAMBDA m : m.Role # "system")
    IN [k \in 1..Len(kept) |->
          [Role |-> kept[k].Role, Content |-> kept[k].Content,
           CacheControl |-> <<>>]]

\* the fresh system message: base prompt plus the analysis, if any
SystemMessage(s, useClaudeCache) ==
    [Role |-> "system",
     Content |-> [tag |-> "preamble", analysis |-> s.AnalysisCache],
     CacheControl |-> IF useClaudeCache THEN <<"ephemeral">> ELSE <<>>]

\* (variant: stored system messages are replayed as well)
BuildMessages_ReplaysSystem(s, useClaudeCache) ==
    <<SystemMessage(s, useClaudeCache)>>
    \o [k \in 1..Len(s.Messages) |->
          [Role |-> s.Messages[k].Role, Content |-> s.Messages[k].Content,
           CacheControl |-> <<>>]]

BuildMessages(s, useClaudeCache) ==
    <<SystemMessage(s, useClaudeCache)>> \o NonSystem(s.Messages)

\* ---- answers of the generation service to the pruning request ----
\* index arrays for a store of n messages: empty, single, duplicate,
\* negative, out of range, the most recent message, the even positions, all
\* but the last four,
\* every position, and arrays longer than the store
IndexArrays(n) ==
    {<<>>, <<0>>, <<0, 0>>, <<0 - 1>>, <<n>>, <<n - 1>>,
     [k \in 1..(n \div 2) |-> 2 * (k - 1)],
     [k \in 1..(n - KeepRecent) |-> k - 1],
     [k \in 1..n |-> k - 1],
     [k \in 1..(n + 1) |-> 0],
     [k \in 1..(n + 1) |-> k - 1]}

\* "[i1, i2, ...]"
Render(indices) ==
    LET n == Len(indices)
    IN IF n = 0 THEN <<Tok("["), Tok("]")>>
       ELSE [k \in 1..(3 * n) |->
               IF k = 1 THEN Tok("[")
               ELSE IF k = 3 * n THEN Tok("]")
               ELSE IF k % 3 = 2 THEN Num(indices[(k + 1) \div 3])
               ELSE IF k % 3 = 0 THEN Tok(",")
               ELSE Tok("ws")]

\* ways the service dresses its array up
Wrappings == {"fenced json", "fenced", "spaced", "open fence"}

Wrap(w, x) ==
    CASE w = "fenced json" ->
            <<Tok("fence"), Tok("json"), Tok("ws")>> \o x
            \o <<Tok("ws"), Tok("fence")>>
      [] w = "fenced" ->
            <<Tok("ws"), Tok("fence"), Tok("ws")>> \o x
            \o <<Tok("ws"), Tok("fence"), Tok("ws")>>
      [] w = "spaced" -> <<Tok("ws")>> \o x \o <<Tok("ws")>>
      [] w = "open fence" -> <<Tok("fence"), Tok("json"), Tok("ws")>> \o x

\* answers that are no array of integers
OtherTexts ==
    {<<>>,
     <<Tok("word"), Tok("ws"), Tok("json")>>,
     <<Tok("null")>>,
     <<Tok("fence"), Tok("json"), Tok("ws"), Tok("null"), Tok("ws"), Tok("fence")>>,
     <<Tok("["), Tok("null"), Tok("]")>>,
     <<Tok("["), Tok("word"), Tok("]")>>,
     <<Tok("["), Num(0)>>,
     <<Tok("["), Num(0), Tok("ws"), Num(1), Tok("]")>>,
     <<Tok("word"), Tok("ws"), Tok("["), Num(0), Tok("]")>>,
     <<Tok("["), Num(0), Tok("]"), Tok("ws"), Tok("word")>>,
     <<Tok("fence"), Tok("ws"), Tok("fence"), Tok("json"), Tok("["), Num(0), Tok("]")>>}

AnswerTexts(n) ==
    {Render(x) : x \in IndexArrays(n)}
    \cup {Wrap(w, Render(x)) : w \in Wrappings, x \in {<<0>>, <<0, 0 - 1, n>>}}
    \cup OtherTexts

\* what pruneWithAI gets: a failed call, or a text and what
\* parsePruningResponse makes of it
AIAnswers(n) ==
    {[kind |-> "transport", indices |-> <<>>, text |-> <<>>]}
    \cup {LET r == parsePruningResponse(t)
          IN [kind |-> IF r.ok THEN "array" ELSE "notarray",
              indices |-> r.indices, text |-> t] : t \in AnswerTexts(n)}

\* results of the directory analyzer (tree capped at 10000 bytes, README
\* at 5000, each followed by its truncation notice)
AnalyzerResults ==
    {SmallCache,
     [FileTree |-> 10101, ReadmeContent |-> 5031, PrimaryConfigs |-> 10]}

\* ---- the on-disk store before the run ----
InitStore(n, sys, len, stamp, cache, prunes) ==
    LET msgs == [i \in 1..n |->
                   NewMessage(IF i <= sys THEN "system"
                              ELSE IF (i - sys) % 2 = 1 THEN "user"
                              ELSE "assistant",
                              Text(ToString(i), len), stamp)]
        s == [NewStore(stamp) EXCEPT
                !.Messages = msgs,
                !.AnalysisCache = cache,
                !.LastAnalysisAt = IF cache = <<>> THEN <<>> ELSE <<stamp>>]
    IN [s EXCEPT !.Metadata.TotalMessages = n,
                 !.Metadata.TotalTokensEstimate = EstimateTokens(s),
                 !.Metadata.PruneCount = prunes]

InitStores ==
    {InitStore(n, sys, sh.len, sh.stamp, sh.cache, sh.prunes) :
        n \in InitCounts, sys \in InitSystemRuns, sh \in InitShapes}

\* a context file json.Unmarshal rejects, or one of another directory
Unparsable == [Unparsable |-> TRUE]

\* Load returns a store: the file is absent or holds one
Loads(file) == file # <<Unparsable>>

NoText == Text("", 0)
NoOp == [kind |-> "none", analyze |-> FALSE, query |-> NoText, cache |-> FALSE]
NoResult == [kind |-> "none", text |-> NoText, err |-> "", exit |-> 0 - 1]
NoAI == [kind |-> "none", indices |-> <<>>, text |-> <<>>]
NoCall == [msg |-> NewMessage("", NoText, 0), index |-> 0 - 1, ret |-> <<>>]

Ops ==
    {[kind |-> "reset", analyze |-> FALSE, query |-> NoText, cache |-> FALSE],
     [kind |-> "info", analyze |-> FALSE, query |-> NoText, cache |-> FALSE]}
    \cup {[kind |-> "query", analyze |-> a, query |-> q, cache |-> c] :
             a \in BOOLEAN, q \in UserQueries, c \in BOOLEAN}

VARIABLES
    pc,          \* position of the run: "idle" before it, "exited" after
    now,         \* the clock, in days
    disk,        \* the context file: <<>> (absent) or <<store>>
    store,       \* Manager.store of the run
    op,          \* command line and configuration of the run
    request,     \* messages assembled for the generation service
    response,    \* <<>> or <<text answered by the generation service>>
    result,      \* how the run ended
    output,      \* what GetInfo, or main about the analysis, printed
    diskAtQuery, \* history: the context file when Query was entered
    querySaves,  \* history: outcome (TRUE = written) of each Save of Query
    guardIn,     \* history: <<store>> on entry of the last guard run
    pruneIn,     \* history: <<store>> on entry of Prune()
    ai,          \* history: the answer to the adaptive pruning request
    pruneRet,    \* history: what Prune() returned: "none", "nil", "err"
    hardRun,     \* history: <<[in, out]>> of the last pruneHard that returned
    unit         \* a direct call of a function: arguments and result

vars == <<pc, now, disk, store, op, request, response, result,
          output, diskAtQuery, querySaves, guardIn, pruneIn, ai, pruneRet,
          hardRun, unit>>

hist == <<diskAtQuery, querySaves, guardIn, pruneIn, ai, pruneRet, hardRun>>

Init ==
    /\ pc = "idle"
    /\ now = 0
    /\ disk \in {<<>>, <<Unparsable>>} \cup {<<s>> : s \in InitStores}
    /\ store = NewStore(0)
    /\ op = NoOp
    /\ request = <<>>
    /\ response = <<>>
    /\ result = NoResult
    /\ output = <<>>
    /\ diskAtQuery = <<>>
    /\ querySaves = <<>>
    /\ guardIn = <<>>
    /\ pruneIn = <<>>
    /\ ai = NoAI
    /\ pruneRet = "none"
    /\ hardRun = <<>>
    /\ unit = NoCall

\* Store.Save: stamps UpdatedAt, then writes the file unless an I/O step fails
Stamped(s, t) == [s EXCEPT !.UpdatedAt = t]

\* encoding/json writes a string as valid UTF-8: every invalid byte becomes
\* U+FFFD, which takes 3 bytes
ToValidUTF8(c) == [c EXCEPT !.len = c.len + 2 * c.bad, !.bad = 0]

\* json.MarshalIndent(s): the document written to the context file
Marshal(s) ==
    [s EXCEPT !.Messages =
        [i \in 1..Len(s.Messages) |->
            [s.Messages[i] EXCEPT !.Content = ToValidUTF8(@)]]]

\* Load: a fresh store for a missing file, else the document's fields
Load(file, t) == IF file = <<>> THEN NewStore(t) ELSE file[1]

\* ------------------------------------------------------------------------
\* config.Load: the global file ~/.config/ask/.env, the local file ./.env
\* and the environment.  A source gives each key <<>> (no line, variable
\* unset) or <<value>>.
\* ------------------------------------------------------------------------
ConfigKeys == {"ASK_API_KEY", "ASK_MODEL", "ASK_OS", "ASK_API_URL"}

\* Config{Model: DefaultModel, OS: DefaultOS, APIURL: DefaultAPIURL}
DefaultOf(key) ==
    CASE key = "ASK_API_KEY" -> ""
      [] key = "ASK_MODEL" -> "gpt-4o"
      [] key = "ASK_OS" -> "macOS"
      [] key = "ASK_API_URL" -> "https://api.openai.com/v1/chat/completions"

\* loadEnvFile: a line sets its field only while the field still holds its
\* default
loadEnvFile(file, cfg) ==
    [k \in ConfigKeys |->
        IF file[k] # <<>> /\ cfg[k] = DefaultOf(k) THEN file[k][1] ELSE cfg[k]]

ConfigLoad(global, local, env) ==
    LET cfg0 == [k \in ConfigKeys |-> DefaultOf(k)]
        cfg1 == loadEnvFile(global, cfg0)
        cfg2 == loadEnvFile(local, cfg1)
    IN [k \in ConfigKeys |->
          IF env[k] # <<>> /\ env[k][1] # "" THEN env[k][1] ELSE cfg2[k]]

\* what a source may say about a key: nothing, one of two values, or the
\* key's default value
SourceValues(key) == {<<>>, <<"value 1">>, <<"value 2">>, <<DefaultOf(key)>>}

\* a source that speaks about one key only
OnlyKey(key, v) == [k \in ConfigKeys |-> IF k = key THEN v ELSE <<>>]

\* Config.Validate: no error
Validate(cfg) ==
    ~(cfg["ASK_API_KEY"] = "" /\ cfg["ASK_API_URL"] = DefaultOf("ASK_API_URL"))

\* the configurations a run may find: with or without a key, with the
\* default or another endpoint
RunConfigs ==
    {ConfigLoad(OnlyKey("ASK_API_KEY", <<>>), OnlyKey("ASK_API_KEY", <<>>),
                [k \in ConfigKeys |->
                    CASE k = "ASK_API_KEY" -> key
                      [] k = "ASK_API_URL" -> url
                      [] OTHER -> <<>>]) :
        key \in {<<>>, <<"value 1">>}, url \in {<<>>, <<"value 2">>}}

\* how a run ends: the text Query returned, or the error, and the
\* exit status of main
Returned(text) == [kind |-> "ok", text |-> text, err |-> "", exit |-> 0]
Failed(err, exit) == [kind |-> "err", text |-> NoText, err |-> err, exit |-> exit]

\* a Go panic ends the process (exit status 2) wherever it is raised
Panic(site) ==
    /\ pc' = "exited"
    /\ result' = [kind |-> "panic", text |-> NoText, err |-> site, exit |-> 2]

\* where main stands after its first steps: position, result and store
Started(p, r, s) == [pc |-> p, result |-> r, store |-> s]

\* (variant: the manager is created before the configuration is validated)
mainStart_ValidatesAfterLoad(cfg, file, s, t) ==
    IF ~Loads(file)
    THEN Started("exited", Failed("failed to load context", 3), s)
    ELSE IF ~Validate(cfg)
    THEN Started("exited", Failed("ASK_API_KEY is required", 2),
                 Load(file, t))
    ELSE Started("loaded", NoResult, Load(file, t))

\* main up to NewManager: an invalid configuration makes main exit 2;
\* otherwise NewManager reads the context file: a missing file starts a
\* fresh store, a Load error makes main exit 3
mainStart(cfg, file, s, t) ==
    IF ~Validate(cfg)
    THEN Started("exited", Failed("ASK_API_KEY is required", 2), s)
    ELSE IF ~Loads(file)
    THEN Started("exited", Failed("failed to load context", 3), s)
    ELSE Started("loaded", NoResult, Load(file, t))

\* (variant: a file that cannot be parsed is treated like a missing one)
Start_UnparsableStartsFresh ==
    /\ pc = "idle"
    /\ \E o \in Ops : op' = o
    /\ \E cfg \in RunConfigs :
          IF ~Validate(cfg)
          THEN /\ result' = Failed("ASK_API_KEY is required", 2)
               /\ pc' = "exited"
               /\ UNCHANGED store
          ELSE /\ store' = IF Loads(disk) THEN Load(disk, now)
                           ELSE NewStore(now)
               /\ pc' = "loaded"
               /\ UNCHANGED result
    /\ UNCHANGED <<unit, now, disk, request, response, output, hist>>

\* the run begins: command line, configuration, context file
Start ==
    /\ pc = "idle"
    /\ \E o \in Ops : op' = o
    /\ \E cfg \in RunConfigs :
          LET r == mainStart(cfg, disk, store, now)
          IN /\ pc' = r.pc
             /\ result' = r.result
             /\ store' = r.store
    /\ UNCHANGED <<unit, now, disk, request, response, output, hist>>

\* Manager.Reset, then main exits 0 or 3
ManagerReset ==
    /\ pc = "loaded"
    /\ op.kind = "reset"
    /\ store' = Stamped(StoreReset(store), now)
    /\ \E ok \in BOOLEAN :
          /\ disk' = IF ok THEN <<Marshal(store')>> ELSE disk
          /\ result' = IF ok THEN Returned(NoText)
                       ELSE Failed("failed to save reset context", 3)
    /\ pc' = "exited"
    /\ UNCHANGED <<unit, now, op, request, response, output, hist>>

\* (variant: the pruning note is shown for hard limits only)
GetInfo_NoteOnHardLimit ==
    /\ pc = "loaded"
    /\ op.kind = "info"
    /\ output' = <<[Messages |-> store.Metadata.TotalMessages,
                    Tokens |-> store.Metadata.TotalTokensEstimate,
                    PruneCount |-> store.Metadata.PruneCount,
                    LastAnalysis |-> store.LastAnalysisAt,
                    LastUpdated |-> store.UpdatedAt,
                    PruningNote |->
                        IF Mentions(ShouldPruneReason(store, now), "hard limit")
                        THEN ShouldPruneReason(store, now) ELSE ""]>>
    /\ result' = Returned(NoText)
    /\ pc' = "exited"
    /\ UNCHANGED <<unit, now, disk, store, op, request, response, hist>>

\* Manager.GetInfo
GetInfo ==
    /\ pc = "loaded"
    /\ op.kind = "info"
    /\ output' = <<[Messages |-> store.Metadata.TotalMessages,
                    Tokens |-> store.Metadata.TotalTokensEstimate,
                    PruneCount |-> store.Metadata.PruneCount,
                    LastAnalysis |-> store.LastAnalysisAt,
                    LastUpdated |-> store.UpdatedAt,
                    PruningNote |-> ShouldPruneReason(store, now)]>>
    /\ result' = Returned(NoText)
    /\ pc' = "exited"
    /\ UNCHANGED <<unit, now, disk, store, op, request, response, hist>>

\* (variant: the snapshot is stored without its timestamp)
AnalyzeDirectory_NoTimestamp(s, cache, t) ==
    [s EXCEPT !.AnalysisCache = <<cache>>]

\* AnalyzeDirectory once analyzer.Analyze has returned the snapshot
AnalyzeDirectory(s, cache, t) ==
    [s EXCEPT !.AnalysisCache = <<cache>>, !.LastAnalysisAt = <<t>>]

\* (variant: a failed analysis ends the run)
ManagerAnalyze_StopsOnFailure ==
    /\ pc = "loaded"
    /\ op.kind = "query"
    /\ op.analyze
    /\ \/ /\ output' = <<"Warning: Analysis failed: analysis failed">>
          /\ result' = Failed("analysis failed", 1)
          /\ pc' = "exited"
          /\ UNCHANGED <<store, disk>>
       \/ \E c \in AnalyzerResults, ok \in BOOLEAN :
             /\ store' = Stamped(AnalyzeDirectory(store, c, now), now)
             /\ disk' = IF ok THEN <<Marshal(store')>> ELSE disk
             /\ output' = IF ok THEN <<"Analysis complete.">>
                           ELSE <<"Warning: Analysis failed: failed to save analysis">>
             /\ pc' = "analyzed"
             /\ UNCHANGED result
    /\ UNCHANGED <<unit, now, op, request, response, hist>>

\* main's --analyze branch: Manager.Analyze runs before Query, main prints
\* a warning when it returns an error and goes on with the query
ManagerAnalyze ==
    /\ pc = "loaded"
    /\ op.kind = "query"
    /\ op.analyze
    /\ \/ /\ output' = <<"Warning: Analysis failed: analysis failed">>
          /\ UNCHANGED <<store, disk>>            \* AnalyzeDirectory fails
       \/ \E c \in AnalyzerResults, ok \in BOOLEAN :
             /\ store' = Stamped(AnalyzeDirectory(store, c, now), now)
             /\ disk' = IF ok THEN <<Marshal(store')>> ELSE disk
             /\ output' = IF ok THEN <<"Analysis complete.">>
                           ELSE <<"Warning: Analysis failed: failed to save analysis">>
    /\ pc' = "analyzed"
    /\ UNCHANGED <<unit, now, op, request, response, result, hist>>

\* outcome of a call: the store it leaves, what it returned ("nil", "err",
\* or "none" when it did not return), the site of a panic ("" if none), and
\* the run of pruneHard it made (<<>> if none)
Outcome(s, ret, panic, hard) ==
    [store |-> s, ret |-> ret, panic |-> panic, hard |-> hard]

hardOutcome(s) ==
    IF pruneHardPanics(s) THEN Outcome(s, "none", "pruneHard", <<>>)
    ELSE Outcome(pruneHard(s), "nil", "",
                 <<[in |-> s, out |-> pruneHard(s)]>>)

\* (variant: the guard removes what an answer of the service names)
checkEmergencyPrune_Adaptive(s) ==
    IF guardPrunes(s)
    THEN Outcome(applyIndices(guardShed(s), <<0>>), "nil", "", <<>>)
    ELSE Outcome(guardShed(s), "nil", "", <<>>)

\* Manager.checkEmergencyPrune
checkEmergencyPrune(s) ==
    IF guardPrunes(s) THEN hardOutcome(guardShed(s))
    ELSE Outcome(guardShed(s), "nil", "", <<>>)

\* Query, step 1: emergency guard before the user message is appended
QueryGuardBefore ==
    /\ \/ pc = "loaded" /\ op.kind = "query" /\ ~op.analyze
       \/ pc = "analyzed"
    /\ diskAtQuery' = disk
    /\ querySaves' = <<>>
    /\ guardIn' = <<store>>
    /\ LET o == checkEmergencyPrune(store)
       IN /\ store' = o.store
          /\ hardRun' = IF o.hard = <<>> THEN hardRun ELSE o.hard
          /\ IF o.panic # "" THEN Panic(o.panic)
             ELSE pc' = "q_guarded" /\ UNCHANGED result
    /\ UNCHANGED <<unit, now, disk, op, request, response, output,
                   pruneIn, ai, pruneRet>>

\* Query, step 2: append the user's message
QueryAddUser ==
    /\ pc = "q_guarded"
    /\ store' = AddMessage(store, "user", op.query, now)
    /\ pc' = "q_user"
    /\ UNCHANGED <<unit, now, disk, op, request, response, result,
                   output, hist>>

\* Query, step 3: assemble the request
QueryBuild ==
    /\ pc = "q_user"
    /\ request' = BuildMessages(store, op.cache)
    /\ pc' = "q_built"
    /\ UNCHANGED <<unit, now, disk, store, op, response, result,
                   output, hist>>

\* (variant: the store is saved before the error is returned)
QueryCall_SavesOnFailure ==
    /\ pc = "q_built"
    /\ \/ /\ result' = Failed("API request failed", 1)
          /\ pc' = "exited"
          /\ store' = Stamped(store, now)
          /\ disk' = <<Marshal(store')>>
          /\ querySaves' = Append(querySaves, TRUE)
          /\ UNCHANGED response
       \/ \E r \in Responses :
             /\ response' = <<r>>
             /\ pc' = "q_called"
             /\ UNCHANGED <<result, store, disk, querySaves>>
    /\ UNCHANGED <<unit, now, op, request, output, diskAtQuery, guardIn, pruneIn,
                   ai, pruneRet, hardRun>>

\* Query, step 4: ChatCompletion either fails (Query returns the error and
\* main exits 1) or answers
QueryCall ==
    /\ pc = "q_built"
    /\ \/ /\ result' = Failed("API request failed", 1)
          /\ pc' = "exited"
          /\ UNCHANGED response
       \/ \E r \in Responses :
             /\ response' = <<r>>
             /\ pc' = "q_called"
             /\ UNCHANGED result
    /\ UNCHANGED <<unit, now, disk, store, op, request, output, hist>>

\* Query, step 5: append the assistant's response
QueryAddResponse ==
    /\ pc = "q_called"
    /\ store' = AddMessage(store, "assistant", response[1], now)
    /\ pc' = "q_resp"
    /\ UNCHANGED <<unit, now, disk, op, request, response, result,
                   output, hist>>

\* (variant: Query goes from the response straight to the normal prune check)
QueryGuardAfter_Skipped ==
    /\ pc = "q_resp"
    /\ pc' = "q_guarded2"
    /\ UNCHANGED <<unit, now, disk, store, op, request, response, result,
                   output, hist>>

\* Query, step 6: emergency guard again
QueryGuardAfter ==
    /\ pc = "q_resp"
    /\ guardIn' = <<store>>
    /\ LET o == checkEmergencyPrune(store)
       IN /\ store' = o.store
          /\ hardRun' = IF o.hard = <<>> THEN hardRun ELSE o.hard
          /\ IF o.panic # "" THEN Panic(o.panic)
             ELSE pc' = "q_guarded2" /\ UNCHANGED result
    /\ UNCHANGED <<unit, now, disk, op, request, response, output,
                   diskAtQuery, querySaves, pruneIn, ai, pruneRet>>

\* api.NewClient never returns nil
clientAvailable == TRUE

\* (variant: the adaptive strategy is tried on stores of any message count)
pruneAsksAI_AnyCount(s) ==
    /\ clientAvailable
    /\ ~(Len(s.Messages) >= MaxMessages)
    /\ ~(EstimateTokens(s) >= MaxTokens)

\* Prune() decides for the adaptive strategy
pruneAsksAI(s) == clientAvailable /\ canUseAIPruning(s)

\* pruneWithAI from the service's answer on: an error for a failed call or
\* an answer that is not an integer array, else the indices are applied
pruneWithAI(s, a) ==
    IF a.kind # "array" THEN Outcome(s, "err", "", <<>>)
    ELSE IF Len(a.indices) > 0 /\ removePanics(s.Messages, a.indices)
    THEN Outcome(s, "none", "removeMessagesByIndices", <<>>)
    ELSE Outcome(applyIndices(s, a.indices), "nil", "", <<>>)

\* (variant: the error of the adaptive attempt is returned, no fallback)
pruneResume_NoFallback(s, a) == pruneWithAI(s, a)

\* Prune() once the adaptive attempt has come back
pruneResume(s, a) ==
    LET r == pruneWithAI(s, a)
    IN IF r.panic = "" /\ r.ret = "err" THEN hardOutcome(s) ELSE r

\* Query, step 7: checkAndPrune up to the point where Prune() either has
\* finished deterministically or has sent the adaptive request
QueryCheckAndPrune ==
    /\ pc = "q_guarded2"
    /\ IF ~ShouldPrune(store, now)
       THEN /\ pc' = "q_pruned"
            /\ UNCHANGED <<store, result, pruneIn, pruneRet, hardRun>>
       ELSE /\ pruneIn' = <<store>>
            /\ IF pruneAsksAI(store)
               THEN /\ pc' = "p_ai"
                    /\ UNCHANGED <<store, result, pruneRet, hardRun>>
               ELSE LET o == hardOutcome(store)
                    IN /\ store' = o.store
                       /\ pruneRet' = o.ret
                       /\ hardRun' = IF o.hard = <<>> THEN hardRun ELSE o.hard
                       /\ IF o.panic # "" THEN Panic(o.panic)
                          ELSE pc' = "q_pruned" /\ UNCHANGED result
    /\ UNCHANGED <<unit, now, disk, op, request, response, output,
                   diskAtQuery, querySaves, guardIn, ai>>

\* Query, step 7 continued: the service answers the pruning request and
\* Prune() finishes (Query only logs an error of checkAndPrune)
PruneWithAI ==
    /\ pc = "p_ai"
    /\ \E a \in AIAnswers(Len(store.Messages)) :
          /\ ai' = a
          /\ LET o == pruneResume(store, a)
             IN /\ store' = o.store
                /\ pruneRet' = o.ret
                /\ hardRun' = IF o.hard = <<>> THEN hardRun ELSE o.hard
                /\ IF o.panic # "" THEN Panic(o.panic)
                   ELSE pc' = "q_pruned" /\ UNCHANGED result
    /\ UNCHANGED <<unit, now, disk, op, request, response, output,
                   diskAtQuery, querySaves, guardIn, pruneIn>>

\* (variant: the response is returned whether or not Save succeeded)
QuerySave_ReturnsResponse ==
    /\ pc = "q_pruned"
    /\ store' = Stamped(store, now)
    /\ \E ok \in BOOLEAN :
          /\ querySaves' = Append(querySaves, ok)
          /\ disk' = IF ok THEN <<Marshal(store')>> ELSE disk
          /\ result' = Returned(response[1])
    /\ pc' = "exited"
    /\ UNCHANGED <<unit, now, op, request, response, output,
                   diskAtQuery, guardIn, pruneIn, ai, pruneRet, hardRun>>

\* Query, step 8: Save, then return the response or the save error
QuerySave ==
    /\ pc = "q_pruned"
    /\ store' = Stamped(store, now)
    /\ \E ok \in BOOLEAN :
          /\ querySaves' = Append(querySaves, ok)
          /\ disk' = IF ok THEN <<Marshal(store')>> ELSE disk
          /\ result' = IF ok THEN Returned(response[1])
                       ELSE Failed("failed to save context", 1)
    /\ pc' = "exited"
    /\ UNCHANGED <<unit, now, op, request, response, output,
                   diskAtQuery, guardIn, pruneIn, ai, pruneRet, hardRun>>

Next ==
    \/ Start
    \/ ManagerReset
    \/ GetInfo
    \/ ManagerAnalyze
    \/ QueryGuardBefore
    \/ QueryAddUser
    \/ QueryBuild
    \/ QueryCall
    \/ QueryAddResponse
    \/ QueryGuardAfter
    \/ QueryCheckAndPrune
    \/ PruneWithAI
    \/ QuerySave

Spec == Init /\ [][Next]_vars

\* ------------------------------------------------------------------------
\* Direct calls of Pruner.ShouldPreserve (the CLI itself never calls it):
\* a store of n messages, one of its positions, and the content found there
\* ------------------------------------------------------------------------
PreserveCounts == {KeepRecent - 1, KeepRecent, KeepRecent + 1, MinAIMessages}

PreserveContents ==
    {Text(ws, SmallLen) :
        ws \in {{}, {"fence"}, {"analysis"}, {"Analysis"}, {"file tree"},
                {"File Tree"}, {"readme"}, {"README"}, {"Readme"},
                {"structure"}, {"architecture"}, {"ARCHITECTURE"},
                {"fence", "README"}}}

PreserveStore(n, index, content) ==
    [NewStore(0) EXCEPT
        !.Messages = [i \in 1..n |->
                        NewMessage(IF i % 2 = 1 THEN "user" ELSE "assistant",
                                   IF i = index + 1 THEN content
                                   ELSE Text({}, SmallLen), 0)],
        !.Metadata.TotalMessages = n,
        !.Metadata.TotalTokensEstimate = n * (SmallLen \div 4)]

PreserveInit ==
    /\ pc = "unit"
    /\ now = 0
    /\ disk = <<>>
    /\ \E n \in PreserveCounts, c \in PreserveContents :
          \E index \in 0..(n - 1) :
             /\ store = PreserveStore(n, index, c)
             /\ unit = [msg |-> store.Messages[index + 1], index |-> index,
                        ret |-> <<>>]
    /\ op = NoOp
    /\ request = <<>>
    /\ response = <<>>
    /\ result = NoResult
    /\ output = <<>>
    /\ diskAtQuery = <<>>
    /\ querySaves = <<>>
    /\ guardIn = <<>>
    /\ pruneIn = <<>>
    /\ ai = NoAI
    /\ pruneRet = "none"
    /\ hardRun = <<>>

CallShouldPreserve ==
    /\ pc = "unit"
    /\ unit.ret = <<>>
    /\ unit' = [unit EXCEPT !.ret = <<ShouldPreserve(store, unit.msg, unit.index)>>]
    /\ UNCHANGED <<pc, now, disk, store, op, request, response, result,
                   output, hist>>

PreserveNext == CallShouldPreserve

PreserveSpec == PreserveInit /\ [][PreserveNext]_vars

\* ------------------------------------------------------------------------
\* Direct use of the Store, as the package's tests make it: messages are
\* added to a fresh store, a snapshot is attached, the store is saved and
\* loaded again under the same directory
\* ------------------------------------------------------------------------
StoreMaxLen == 2

\* the per-message cap the README and TestMessageSizeLimits name, and the
\* room the test leaves for the truncation notice
MaxMessageLength == 50000
TruncationNoticeMax == 100

\* contents passed to AddMessage: short, with a byte that is no UTF-8 (a
\* command-line argument may hold any bytes), and longer than the cap
StoreContents ==
    {Text("a", SmallLen), InvalidText("b", SmallLen, 1),
     Text("A", MaxMessageLength + 1000)}

StoreInit ==
    /\ pc = "st"
    /\ now = 0
    /\ disk = <<>>
    /\ store = NewStore(0)
    /\ unit = NoCall
    /\ op = NoOp
    /\ request = <<>>
    /\ response = <<>>
    /\ result = NoResult
    /\ output = <<>>
    /\ diskAtQuery = <<>>
    /\ querySaves = <<>>
    /\ guardIn = <<>>
    /\ pruneIn = <<>>
    /\ ai = NoAI
    /\ pruneRet = "none"
    /\ hardRun = <<>>

\* store.AddMessage(role, content); unit keeps the arguments
StoreAdd ==
    /\ pc = "st"
    /\ Len(store.Messages) < StoreMaxLen
    /\ \E role \in {"user", "assistant"}, c \in StoreContents :
          /\ store' = AddMessage(store, role, c, now)
          /\ unit' = [msg |-> NewMessage(role, c, now), index |-> 0 - 1,
                      ret |-> <<>>]
    /\ UNCHANGED <<pc, now, disk, op, request, response, result, output, hist>>

\* store.AnalysisCache = &AnalysisCache{...}
StoreSetCache ==
    /\ pc = "st"
    /\ store.AnalysisCache = <<>>
    /\ \E c \in AnalyzerResults :
          store' = [store EXCEPT !.AnalysisCache = <<c>>,
                                 !.LastAnalysisAt = <<now>>]
    /\ UNCHANGED <<pc, now, disk, unit, op, request, response, result, output,
                   hist>>

\* store.Save()
StoreSave ==
    /\ pc = "st"
    /\ store' = Stamped(store, now)
    /\ \E ok \in BOOLEAN :
          /\ disk' = IF ok THEN <<Marshal(store')>> ELSE disk
          /\ pc' = IF ok THEN "st_saved" ELSE "st_failed"
    /\ UNCHANGED <<now, unit, op, request, response, result, output, hist>>

\* Load(directory) of the file just written
StoreLoad ==
    /\ pc = "st_saved"
    /\ store' = Load(disk, now)
    /\ pc' = "st_loaded"
    /\ UNCHANGED <<now, disk, unit, op, request, response, result, output,
                   hist>>

StoreNext ==
    \/ StoreAdd
    \/ StoreSetCache
    \/ StoreSave
    \/ StoreLoad

StoreSpec == StoreInit /\ [][StoreNext]_vars

ConfigInit ==
    /\ pc = "cfg"
    /\ \E key \in ConfigKeys :
          \E g \in SourceValues(key), l \in SourceValues(key),
             e \in SourceValues(key) :
             unit = [global |-> OnlyKey(key, g), local |-> OnlyKey(key, l),
                     env |-> OnlyKey(key, e), ret |-> <<>>]
    /\ now = 0
    /\ disk = <<>>
    /\ store = NewStore(0)
    /\ op = NoOp
    /\ request = <<>>
    /\ response = <<>>
    /\ result = NoResult
    /\ output = <<>>
    /\ diskAtQuery = <<>>
    /\ querySaves = <<>>
    /\ guardIn = <<>>
    /\ pruneIn = <<>>
    /\ ai = NoAI
    /\ pruneRet = "none"
    /\ hardRun = <<>>

CallConfigLoad ==
    /\ pc = "cfg"
    /\ unit.ret = <<>>
    /\ unit' = [unit EXCEPT
                  !.ret = <<ConfigLoad(unit.global, unit.local, unit.env)>>]
    /\ UNCHANGED <<pc, now, disk, store, op, request, response, result,
                   output, hist>>

ConfigNext == CallConfigLoad

ConfigSpec == ConfigInit /\ [][ConfigNext]_vars

\* ------------------------------------------------------------------------
\* Two invocations of main in the same directory.  pc, store and result
\* are functions of the invocation; disk is the context file as the file
\* system holds it: <<>> (absent) or <<[json, size]>>, json being the
\* document the bytes spell (Unparsable if they spell none).
\* ------------------------------------------------------------------------
Procs == {1, 2}

\* the longest content the first, resp. second, invocation exchanges
RaceLen(i) == IF i = 1 THEN SmallLen ELSE MidLen
RaceQuery(i) == Text(IF i = 1 THEN "q1" ELSE "q2", RaceLen(i))
RaceResponse(i) == Text(IF i = 1 THEN "r1" ELSE "r2", RaceLen(i))

\* length of json.MarshalIndent's output, up to the bytes every document
\* and every message has: it grows with each message and with its content
DocSize(doc) ==
    LET m == doc.Messages
    IN 1 + Len(m) + SumTokens([i \in 1..Len(m) |->
                                  [m[i] EXCEPT !.Content.len = 4 * @]],
                              1, Len(m))

File(doc) == <<[json |-> doc, size |-> DocSize(doc)]>>

\* os.ReadFile + json.Unmarshal see what the bytes spell; an empty file
\* spells no document
ReadFile(file) ==
    IF file = <<>> THEN <<>>
    ELSE IF file[1].size = 0 THEN <<Unparsable>>
    ELSE <<file[1].json>>

\* os.WriteFile, first half: OpenFile(O_WRONLY|O_CREATE|O_TRUNC)
OpenTrunc(file) == <<[json |-> Unparsable, size |-> 0]>>

\* os.WriteFile, second half: Write(data) at offset 0 of the handle; bytes
\* another handle wrote beyond len(data) stay in the file
WriteAtZero(file, doc) ==
    IF file[1].size <= DocSize(doc) THEN File(doc)
    ELSE <<[json |-> Unparsable, size |-> file[1].size]>>

\* the files the two invocations may find
RaceDisks == {<<>>, File(InitStore(2, 0, SmallLen, 0, <<>>, 0)),
              File(InitStore(KeepRecent, 0, MidLen, 0, <<>>, 1))}

\* an event of the log: invocation i read the file, or wrote it
Event(i, ev) == [proc |-> i, ev |-> ev]

RaceInit ==
    /\ pc = [i \in Procs |-> "idle"]
    /\ now = 0
    /\ disk \in RaceDisks
    /\ store = [i \in Procs |-> NewStore(0)]
    /\ result = [i \in Procs |-> NoResult]
    /\ querySaves = <<>>
    /\ unit = NoCall
    /\ op = NoOp
    /\ request = <<>>
    /\ response = <<>>
    /\ output = <<>>
    /\ diskAtQuery = <<>>
    /\ guardIn = <<>>
    /\ pruneIn = <<>>
    /\ ai = NoAI
    /\ pruneRet = "none"
    /\ hardRun = <<>>

\* main up to NewManager, with a valid configuration
RaceStart(i) ==
    /\ pc[i] = "idle"
    /\ \E cfg \in {c \in RunConfigs : Validate(c)} :
          LET r == mainStart(cfg, ReadFile(disk), store[i], now)
          IN /\ pc' = [pc EXCEPT ![i] = r.pc]
             /\ result' = [result EXCEPT ![i] = r.result]
             /\ store' = [store EXCEPT ![i] = r.store]
    /\ querySaves' = Append(querySaves, Event(i, "load"))
    /\ UNCHANGED <<unit, now, disk, op, request, response, output,
                   diskAtQuery, guardIn, pruneIn, ai, pruneRet, hardRun>>

\* Query up to Save, for a store on which Prune() does not take the
\* adaptive path: guard, user message, call, response, guard, checkAndPrune
QueryInMemory(s, q, r, t) ==
    LET g1 == checkEmergencyPrune(s).store
        s2 == AddMessage(AddMessage(g1, "user", q, t), "assistant", r, t)
        g2 == checkEmergencyPrune(s2).store
    IN IF ShouldPrune(g2, t) THEN hardOutcome(g2).store ELSE g2

RaceQueryRun(i) ==
    /\ pc[i] = "loaded"
    /\ ~pruneAsksAI(store[i])
    /\ \/ /\ result' = [result EXCEPT ![i] = Failed("API request failed", 1)]
          /\ pc' = [pc EXCEPT ![i] = "exited"]
          /\ UNCHANGED store
       \/ /\ store' = [store EXCEPT ![i] =
                          QueryInMemory(@, RaceQuery(i), RaceResponse(i), now)]
          /\ pc' = [pc EXCEPT ![i] = "saving"]
          /\ UNCHANGED result
    /\ UNCHANGED <<unit, now, disk, op, request, response, output, hist>>

\* Save up to the opening of the file by os.WriteFile
RaceSaveOpen(i) ==
    /\ pc[i] = "saving"
    /\ store' = [store EXCEPT ![i] = Stamped(@, now)]
    /\ \/ /\ disk' = OpenTrunc(disk)
          /\ pc' = [pc EXCEPT ![i] = "writing"]
          /\ UNCHANGED result
       \/ /\ result' = [result EXCEPT ![i] = Failed("failed to save context", 1)]
          /\ pc' = [pc EXCEPT ![i] = "exited"]
          /\ UNCHANGED disk
    /\ UNCHANGED <<unit, now, op, request, response, output, hist>>

\* the write of os.WriteFile; Query returns the response
RaceSaveWrite(i) ==
    /\ pc[i] = "writing"
    /\ disk' = WriteAtZero(disk, Marshal(store[i]))
    /\ querySaves' = Append(querySaves, Event(i, "save"))
    /\ result' = [result EXCEPT ![i] = Returned(RaceResponse(i))]
    /\ pc' = [pc EXCEPT ![i] = "exited"]
    /\ UNCHANGED <<unit, now, store, op, request, response, output,
                   diskAtQuery, guardIn, pruneIn, ai, pruneRet, hardRun>>

RaceNext ==
    \/ \E i \in Procs : RaceStart(i)
    \/ \E i \in Procs : RaceQueryRun(i)
    \/ \E i \in Procs : RaceSaveOpen(i)
    \/ \E i \in Procs : RaceSaveWrite(i)

RaceSpec == RaceInit /\ [][RaceNext]_vars

\* ------------------------------------------------------------------------
\* Client.ChatCompletion: the retry loop.  unit keeps the outcome of every
\* makeRequest so far (log) and what ChatCompletion returned (ret).
\* ------------------------------------------------------------------------
MaxAttempts == 3

\* what makeRequest may return: the content of the first choice, or one
\* of its errors
RequestErrors ==
    {"failed to create request", "request failed", "failed to read response",
     "failed to parse response", "API error", "no response choices returned"}

RequestOutcomes ==
    {[kind |-> "ok", text |-> r, err |-> ""] : r \in Responses}
    \cup {[kind |-> "err", text |-> NoText, err |-> e] : e \in RequestErrors}

ClientInit ==
    /\ pc = "cc_loop"
    /\ unit = [log |-> <<>>, ret |-> <<>>]
    /\ now = 0
    /\ disk = <<>>
    /\ store = NewStore(0)
    /\ op = NoOp
    /\ request = <<>>
    /\ response = <<>>
    /\ result = NoResult
    /\ output = <<>>
    /\ diskAtQuery = <<>>
    /\ querySaves = <<>>
    /\ guardIn = <<>>
    /\ pruneIn = <<>>
    /\ ai = NoAI
    /\ pruneRet = "none"
    /\ hardRun = <<>>

\* (variant: the loop goes on after an attempt that succeeded)
ClientAttempt_KeepsTrying ==
    /\ pc = "cc_loop"
    /\ Len(unit.log) < MaxAttempts
    /\ \E o \in RequestOutcomes :
          LET log == Append(unit.log, o)
          IN IF Len(log) < MaxAttempts
             THEN /\ unit' = [unit EXCEPT !.log = log]
                  /\ UNCHANGED pc
             ELSE /\ unit' = [log |-> log,
                              ret |-> <<IF o.kind = "ok" THEN Returned(o.text)
                                        ELSE Failed("failed after 3 attempts", 1)>>]
                  /\ pc' = "cc_returned"
    /\ UNCHANGED <<now, disk, store, op, request, response, result, output,
                   hist>>

\* one turn of the loop: the backoff sleep (attempt*attempt seconds), then
\* makeRequest, which the client's 60 s timeout bounds; a success returns
\* at once, the third failure ends the loop with the error
ClientAttempt ==
    /\ pc = "cc_loop"
    /\ Len(unit.log) < MaxAttempts
    /\ \E o \in RequestOutcomes :
          LET log == Append(unit.log, o)
          IN IF o.kind = "ok"
             THEN /\ unit' = [log |-> log, ret |-> <<Returned(o.text)>>]
                  /\ pc' = "cc_returned"
             ELSE IF Len(log) < MaxAttempts
             THEN /\ unit' = [unit EXCEPT !.log = log]
                  /\ UNCHANGED pc
             ELSE /\ unit' = [log |-> log,
                              ret |-> <<Failed("failed after 3 attempts", 1)>>]
                  /\ pc' = "cc_returned"
    /\ UNCHANGED <<now, disk, store, op, request, response, result, output,
                   hist>>

ClientNext == ClientAttempt

ClientSpec == ClientInit /\ [][ClientNext]_vars

\* makeRequest returns (the HTTP client has a timeout) and the loop goes on
ClientLiveSpec == ClientSpec /\ WF_vars(ClientNext)

\* ------------------------------------------------------------------------
\* Properties
\* ------------------------------------------------------------------------
Count(s) == Len(s.Messages)

AdaptiveError == ai.kind \in {"transport", "notarray"}

GuardReturned == pc \in {"q_guarded", "q_guarded2"}

QuerySucceeded == pc = "exited" /\ op.kind = "query" /\ result.kind = "ok"

\* the run ended on Config.Validate's error
ConfigError(r) == r.kind = "err" /\ r.err = "ASK_API_KEY is required"

\* C1: whatever the generation service answers to the adaptive pruning
\* request (failure, text that is no array, any integer array), Prune()
\* returns and Query goes on to Save: once an answer has arrived the run is
\* at the persist step or has made its Save.
C1_PruningNeverBlocksQuery ==
    ai.kind # "none" =>
        \/ pc = "q_pruned"
        \/ pc = "exited" /\ Len(querySaves) = 1

\* C2: when the adaptive attempt returns an error, Prune() runs pruneHard
\* on the store exactly as it was when Prune() was entered and returns what
\* pruneHard returns; the adaptive error itself is never returned.
C2_FallbackOnAdaptiveError ==
    [][(pc = "p_ai" /\ ai'.kind \in {"transport", "notarray"}) =>
          /\ pruneIn = <<store>>
          /\ pruneRet' # "err"
          /\ IF pruneHardPanics(store)
             THEN result'.kind = "panic" /\ result'.err = "pruneHard"
             ELSE /\ store' = pruneHard(store)
                  /\ pruneRet' = "nil"
                  /\ pc' = "q_pruned"]_vars

\* the fallback ran after a failed adaptive attempt and removed messages
C2_Witness ==
    /\ pc = "q_pruned"
    /\ AdaptiveError
    /\ pruneRet = "nil"
    /\ Count(store) < Count(pruneIn[1])

\* C3: after every Query that returns successfully the persisted store
\* holds fewer than MaxMessages (100) messages, whatever the service
\* answered to the pruning request.
C3_PersistedBelowHardCeiling ==
    QuerySucceeded => (disk # <<>> /\ Count(disk[1]) < MaxMessages)

\* a successful Query whose adaptive attempt got an empty array and that
\* persisted a store one message below the ceiling
C3_Witness ==
    /\ QuerySucceeded
    /\ ai.kind = "array" /\ ai.indices = <<>>
    /\ disk # <<>> /\ Count(disk[1]) = MaxMessages - 1

\* C4: whenever the Emergency Guard returns, the store's size estimate is
\* at most emergencyTokens (37500).
C4_GuardBoundsSize ==
    GuardReturned => EstimateTokens(store) <= emergencyTokens

\* C5: a store whose analysis snapshot alone is estimated above 37500
\* units has, after the guard has run, no snapshot and a size estimate of
\* at most 37500.
C5_HugeSnapshotRescued ==
    (GuardReturned /\ estimateAnalysisCacheTokens(guardIn[1]) > emergencyTokens)
        => /\ store.AnalysisCache = <<>>
           /\ EstimateTokens(store) <= emergencyTokens

\* C6: whatever the roles of the messages, a run of pruneHard never leaves
\* fewer than 4 messages when the store had at least 4, and never leaves
\* more messages than it started with.
C6_HardPruneKeepsFour ==
    hardRun # <<>> =>
        /\ Count(hardRun[1].in) >= KeepRecent
              => Count(hardRun[1].out) >= KeepRecent
        /\ Count(hardRun[1].out) <= Count(hardRun[1].in)

PruneReturnedNil == pc = "q_pruned" /\ pruneRet = "nil"

PruneCountRaisedByOne ==
    /\ store.Metadata.TotalMessages = Count(store)
    /\ store.Metadata.PruneCount = pruneIn[1].Metadata.PruneCount + 1

\* C7 (as claimed): after any Prune() that returns without error on a
\* store for which ShouldPrune() was true, TotalMessages equals
\* len(Messages) and PruneCount is exactly one more than before.
C7_EveryPruneCounts ==
    PruneReturnedNil => PruneCountRaisedByOne

\* C7 (amended): after any Prune() that returns without error and has
\* removed at least one message, TotalMessages equals len(Messages) and
\* PruneCount is exactly one more than before.
C7_RemovingPruneCounts ==
    (PruneReturnedNil /\ Count(store) < Count(pruneIn[1]))
        => PruneCountRaisedByOne

\* Prune() removed messages by the deterministic strategy
C7_Witness ==
    /\ PruneReturnedNil
    /\ ai.kind = "none"
    /\ Count(store) < Count(pruneIn[1])

Consistent(s) ==
    /\ s.Metadata.TotalMessages = Count(s)
    /\ s.Metadata.TotalTokensEstimate = EstimateTokens(s)

C9_FailedCallLeavesDisk ==
    (pc = "exited" /\ guardIn # <<>> /\ response = <<>>
        /\ result.kind # "panic")
        => /\ result.kind = "err"
           /\ result.text = NoText
           /\ querySaves = <<>>
           /\ disk = diskAtQuery

\* the call failed after the guard had pruned the in-memory store and the
\* user's message had been appended to it
C9_Witness ==
    /\ pc = "exited"
    /\ result.err = "API request failed"
    /\ hardRun # <<>>
    /\ disk # <<>>
    /\ store.Messages # disk[1].Messages
    /\ store.Messages[Count(store)].Content = op.query

\* C10: if Save fails at the end of Query, Query returns an error and not
\* the response text; the response text is returned only when Save wrote
\* the store.
C10_ResponseOnlyIfSaved ==
    /\ (pc = "exited" /\ querySaves = <<FALSE>>)
          => (result.kind = "err" /\ result.text = NoText /\ result.exit = 1)
    /\ QuerySucceeded
          => (querySaves = <<TRUE>> /\ disk = <<store>>
              /\ result.text = response[1])

\* Save failed although the response had been obtained and appended
C10_Witness ==
    /\ pc = "exited"
    /\ querySaves = <<FALSE>>
    /\ response # <<>>
    /\ Count(store) > 0
    /\ store.Messages[Count(store)].Content = response[1]
    /\ disk = diskAtQuery

\* C11: Load on a directory without a context file returns a fresh empty
\* store (no messages, no snapshot, all counters zero) and no error; Load on
\* a file that cannot be parsed returns an error and no store, and the run
\* stops (exit 3) before any request is assembled or any file is written.
C11_LoadMissingOrUnparsable ==
    /\ [][(pc = "idle" /\ disk = <<>> /\ ~ConfigError(result')) =>
             /\ pc' = "loaded"
             /\ result' = NoResult
             /\ store'.Messages = <<>>
             /\ store'.AnalysisCache = <<>>
             /\ store'.LastAnalysisAt = <<>>
             /\ store'.Metadata = [TotalMessages |-> 0,
                                   TotalTokensEstimate |-> 0,
                                   PruneCount |-> 0]]_vars
    /\ [][(pc = "idle" /\ disk = <<Unparsable>> /\ ~ConfigError(result')) =>
             /\ pc' = "exited"
             /\ result'.kind = "err" /\ result'.exit = 3]_vars
    /\ [](disk = <<Unparsable>> =>
             /\ pc \in {"idle", "exited"}
             /\ request = <<>> /\ response = <<>>
             /\ querySaves = <<>>)

\* a query was asked for over a context file that cannot be parsed
C11_Witness ==
    /\ pc = "exited"
    /\ op.kind = "query"
    /\ disk = <<Unparsable>>
    /\ result.err = "failed to load context"

\* the checks of ShouldPrune on the run's store, as the claims word them
OldestAge == IF Count(store) = 0 THEN 0 ELSE now - store.Messages[1].Timestamp

ReasonNow == ShouldPruneReason(store, now)

\* C12: ShouldPrune() is a fixed-priority decision: false with an empty
\* reason exactly when the store has fewer than 40 messages, a size estimate
\* below 15000 and an oldest message no older than 30 days; otherwise true
\* with the reason of the first condition met in the order hard messages,
\* hard size, hard age, soft messages, soft size.
C12_FixedPriorityDecision ==
    LET n == Count(store)
        size == EstimateTokens(store)
        c1 == n >= 100
        c2 == size >= 25000
        c3 == OldestAge > 30
        c4 == n >= 40
        c5 == size >= 15000
    IN /\ ShouldPrune(store, now) <=> (c1 \/ c2 \/ c3 \/ c4 \/ c5)
       /\ ~ShouldPrune(store, now) <=> ReasonNow = ""
       /\ c1 => (Mentions(ReasonNow, "hard limit")
                 /\ Mentions(ReasonNow, "messages"))
       /\ (~c1 /\ c2) => (Mentions(ReasonNow, "hard limit")
                          /\ Mentions(ReasonNow, "tokens"))
       /\ (~c1 /\ ~c2 /\ c3) => ReasonNow = "hard limit: age"
       /\ (~c1 /\ ~c2 /\ ~c3 /\ c4) =>
             (Mentions(ReasonNow, "soft limit")
              /\ Mentions(ReasonNow, "messages"))
       /\ (~c1 /\ ~c2 /\ ~c3 /\ ~c4 /\ c5) =>
             (Mentions(ReasonNow, "soft limit")
              /\ Mentions(ReasonNow, "tokens"))

\* the normal prune check finds an old first message in a store that is
\* also past both soft limits
C12_Witness ==
    /\ pc = "q_guarded2"
    /\ OldestAge > MaxAgeDays
    /\ Count(store) >= SoftMaxMessages /\ Count(store) < MaxMessages
    /\ EstimateTokens(store) >= SoftMaxTokens
    /\ EstimateTokens(store) < MaxTokens

\* C13 (as claimed): whenever the oldest message is older than 30 days,
\* ShouldPrune() is true with a reason mentioning "age", whatever the
\* message count and the size estimate are.
C13_OldStoreReasonIsAge ==
    OldestAge > MaxAgeDays =>
        (ShouldPrune(store, now) /\ Mentions(ReasonNow, "age"))

\* C13 (amended): whenever the oldest message is older than 30 days,
\* ShouldPrune() is true; its reason mentions "age" when the store has
\* fewer than 100 messages and a size estimate below 25000.
C13_OldStorePrunes ==
    OldestAge > MaxAgeDays =>
        /\ ShouldPrune(store, now)
        /\ (Count(store) < MaxMessages /\ EstimateTokens(store) < MaxTokens)
              => Mentions(ReasonNow, "age")

\* the normal prune check finds an old first message in a store below
\* every other limit
C13_Witness ==
    /\ pc = "q_guarded2"
    /\ OldestAge > MaxAgeDays
    /\ Count(store) < SoftMaxMessages
    /\ EstimateTokens(store) < SoftMaxTokens

HardCeilingMet(s, t) ==
    \/ Count(s) >= MaxMessages
    \/ EstimateTokens(s) >= MaxTokens
    \/ Count(s) > 0 /\ t - s.Messages[1].Timestamp > MaxAgeDays

\* C14: whenever a hard ceiling is met at the normal prune check (at least
\* 100 messages, a size estimate of at least 25000, or an oldest message
\* older than 30 days), the pruning that follows removes at least one
\* message from the store.
C14_HardCeilingRemoves ==
    (pc = "q_pruned" /\ pruneIn # <<>> /\ HardCeilingMet(pruneIn[1], now))
        => Count(store) < Count(pruneIn[1])

\* C15: Prune() sends a request to the generation service if and only if
\* ShouldPrune() is true, a client is available, and the store has at least
\* 10 and fewer than 100 messages and a size estimate below 25000; in every
\* other case where ShouldPrune() is true only pruneHard runs.
C15_AdaptiveOnlyWhenEligible ==
    [][pc = "q_guarded2" =>
          LET eligible == /\ ShouldPrune(store, now)
                          /\ clientAvailable
                          /\ Count(store) >= 10
                          /\ Count(store) < 100
                          /\ EstimateTokens(store) < 25000
          IN /\ (pc' = "p_ai") <=> eligible
             /\ (ShouldPrune(store, now) /\ ~eligible) =>
                   /\ ai' = NoAI
                   /\ pruneIn' = <<store>>
                   /\ IF pruneHardPanics(store)
                      THEN result'.kind = "panic"
                      ELSE store' = pruneHard(store) /\ pruneRet' = "nil"]_vars

\* the adaptive request is sent for a store of exactly 10 messages
C15_Witness ==
    /\ pc = "p_ai"
    /\ Count(store) = MinAIMessages
    /\ ShouldPrune(store, now)

\* C16: when pruneHard removes messages, the result is the original
\* sequence with exactly `excess` messages deleted, those immediately after
\* the leading run of system-role messages; the leading system messages and
\* every later message are kept, in their original order.
C16_HardPruneCutsAfterSystemRun ==
    (hardRun # <<>> /\ Count(hardRun[1].out) < Count(hardRun[1].in)) =>
        LET old == hardRun[1].in.Messages
            sys == SystemRun(old)
            excess == pruneHardToRemove(hardRun[1].in)
        IN hardRun[1].out.Messages =
              SubSeq(old, 1, sys) \o SubSeq(old, sys + excess + 1, Len(old))

\* the (up to) 4 most recent messages of a store
LastFour(s) ==
    SubSeq(s.Messages,
           IF Count(s) > KeepRecent THEN Count(s) - KeepRecent + 1 ELSE 1,
           Count(s))

\* C17: after any prune performed during Query, by the guard, by the
\* adaptive or by the deterministic strategy and for any index array the
\* service returns, the 4 most recent messages of the store before the
\* prune are still its 4 most recent messages.
C17_LastFourSurvive ==
    /\ GuardReturned => LastFour(store) = LastFour(guardIn[1])
    /\ (pc = "q_pruned" /\ pruneIn # <<>>)
          => LastFour(store) = LastFour(pruneIn[1])

\* C18: removal by indices is exact, stable positional removal: for the set
\* S of positions named by the array, the result holds exactly the messages
\* whose original position is not in S, in their original order.
C18_RemovalIsPositional ==
    (pc = "q_pruned" /\ ai.kind = "array" /\ ai.indices # <<>>) =>
        LET old == pruneIn[1].Messages
            n == Len(old)
            S == IndexSet(ai.indices) \cap (0..(n - 1))
        IN /\ Count(store) = n - Cardinality(S)
           /\ \A p \in (0..(n - 1)) \ S :
                 store.Messages[p + 1 - Cardinality({q \in S : q < p})]
                    = old[p + 1]

\* positions 0, 2, 4, 6, 8 were removed from a store of 10 messages
C18_Witness ==
    /\ pc = "q_pruned"
    /\ ai.indices = <<0, 2, 4, 6, 8>>
    /\ Count(pruneIn[1]) = 10
    /\ Count(store) = 5
    /\ \A k \in 1..5 : store.Messages[k] = pruneIn[1].Messages[2 * k]

\* the array the claim reads in a response: white space aside, what is
\* left between an optional leading fence (with or without the json tag)
\* and an optional trailing fence
ClaimedBody(text) ==
    LET c == SelectSeq(text, LAMBDA k : k.t # "ws")
        lo == IF Len(c) >= 2 /\ c[1].t = "fence" /\ c[2].t = "json" THEN 3
              ELSE IF Len(c) >= 1 /\ c[1].t = "fence" THEN 2
              ELSE 1
        hi == IF Len(c) >= lo /\ c[Len(c)].t = "fence" THEN Len(c) - 1
              ELSE Len(c)
    IN SubSeq(c, lo, hi)

IsIntArray(b) ==
    /\ Len(b) >= 2
    /\ b[1].t = "[" /\ b[Len(b)].t = "]"
    /\ \/ Len(b) = 2
       \/ /\ Len(b) % 2 = 1
          /\ \A i \in 2..(Len(b) - 1) :
                IF i % 2 = 0 THEN b[i].t = "int" ELSE b[i].t = ","

\* C19: parsing the adaptive response accepts a JSON array of integers,
\* bare or wrapped in a leading/trailing code fence (with or without the
\* json tag) and surrounding white space, and returns its elements in
\* order; every other text is a parse failure that yields no indices.
C19_ParseAcceptsOnlyIntArrays ==
    ai.kind \in {"array", "notarray"} =>
        LET b == ClaimedBody(ai.text)
        IN IF IsIntArray(b)
           THEN /\ ai.kind = "array"
                /\ ai.indices = [k \in 1..((Len(b) - 1) \div 2) |-> b[2 * k].v]
           ELSE /\ ai.kind = "notarray"
                /\ ai.indices = <<>>

\* C20: ShouldPreserve(message, index) is true exactly when index is within
\* the last 4 positions of the store, or the content contains a fence of
\* three backquotes, or the lower-cased content contains one of the keywords
\* analysis, file tree, readme, structure, architecture; false otherwise.
C20_PreserveRule ==
    unit.ret # <<>> =>
        LET words == {LowerOf(w) : w \in unit.msg.Content.tag}
        IN unit.ret[1] <=>
              \/ unit.index >= Count(store) - 4
              \/ "fence" \in unit.msg.Content.tag
              \/ words \cap {"analysis", "file tree", "readme", "structure",
                             "architecture"} # {}

\* C21: every successful Query performs its steps in this order, each
\* exactly once: Emergency Guard, append the user message, assemble the
\* request, call the generation service, append the response, Emergency
\* Guard again, normal prune check, persist; a step starts only where the
\* previous one has finished, and does its work on the store it finds.
C21_QueryStepsInOrder ==
    [][pc' # pc =>
          /\ pc' = "q_guarded" =>
                /\ pc \in {"loaded", "analyzed"}
                /\ guardIn' = <<store>>
                /\ store' = checkEmergencyPrune(store).store
          /\ pc' = "q_user" =>
                /\ pc = "q_guarded"
                /\ store' = AddMessage(store, "user", op.query, now)
          /\ pc' = "q_built" =>
                /\ pc = "q_user"
                /\ request = <<>> /\ request' # <<>>
                /\ store' = store
          /\ pc' = "q_called" =>
                /\ pc = "q_built"
                /\ response = <<>> /\ response' # <<>>
                /\ store' = store
          /\ pc' = "q_resp" =>
                /\ pc = "q_called"
                /\ store' = AddMessage(store, "assistant", response[1], now)
          /\ pc' = "q_guarded2" =>
                /\ pc = "q_resp"
                /\ guardIn' = <<store>>
                /\ store' = checkEmergencyPrune(store).store
          /\ pc' = "p_ai" => pc = "q_guarded2"
          /\ pc' = "q_pruned" => pc \in {"q_guarded2", "p_ai"}
          /\ (pc' = "exited" /\ op.kind = "query" /\ result'.kind = "ok") =>
                /\ pc = "q_pruned"
                /\ querySaves' = <<TRUE>>
                /\ disk' = <<store'>>]_vars

\* a successful Query whose second guard run and whose normal prune check
\* both had work to do
C21_Witness ==
    /\ QuerySucceeded
    /\ pruneIn # <<>>
    /\ ai.kind = "array"
    /\ Count(store) < Count(pruneIn[1])
    /\ Count(pruneIn[1]) <= Count(guardIn[1])

\* C22: the request sent to the generation service holds exactly one
\* system-role message, at position 0 and freshly built, followed by all
\* non-system messages of the store in store order and ending with the
\* current user query; stored system-role messages are never replayed, and
\* a cache hint is set on the leading system message only, and only when
\* caching is requested.
C22_RequestShape ==
    pc = "q_built" =>
        LET n == Count(store)
            Sys == {i \in 1..n : store.Messages[i].Role = "system"}
        IN /\ Len(request) = 1 + n - Cardinality(Sys)
           /\ request[1].Role = "system"
           /\ request[1].Content =
                 [tag |-> "preamble", analysis |-> store.AnalysisCache]
           /\ request[1].CacheControl # <<>> <=> op.cache
           /\ \A k \in 2..Len(request) :
                 /\ request[k].Role # "system"
                 /\ request[k].CacheControl = <<>>
           /\ \A i \in (1..n) \ Sys :
                 LET k == 1 + i - Cardinality({j \in Sys : j < i})
                 IN /\ request[k].Role = store.Messages[i].Role
                    /\ request[k].Content = store.Messages[i].Content
           /\ request[Len(request)].Role = "user"
           /\ request[Len(request)].Content = op.query

\* a request with cache hint built from a store that holds system-role
\* messages and an analysis snapshot
C22_Witness ==
    /\ pc = "q_built"
    /\ op.cache
    /\ store.AnalysisCache # <<>>
    /\ \E i \in 1..Count(store) : store.Messages[i].Role = "system"
    /\ Len(request) > 2

\* C23: Reset, applied to any store, leaves it with no messages, no analysis
\* snapshot, no last-analysis timestamp, TotalMessages 0 and
\* TotalTokensEstimate 0, and with PruneCount equal to its value before the
\* reset; the store that is then persisted has exactly this content.
C23_ResetKeepsPruneCount ==
    [][(pc = "loaded" /\ op.kind = "reset") =>
          /\ store'.Messages = <<>>
          /\ store'.AnalysisCache = <<>>
          /\ store'.LastAnalysisAt = <<>>
          /\ store'.Metadata.TotalMessages = 0
          /\ store'.Metadata.TotalTokensEstimate = 0
          /\ store'.Metadata.PruneCount = store.Metadata.PruneCount
          /\ result'.kind = "ok" => disk' = <<store'>>
          /\ result'.kind # "ok" => disk' = disk]_vars

\* a store that had messages, a snapshot and earlier prunes was reset and
\* persisted
C23_Witness ==
    /\ pc = "exited"
    /\ op.kind = "reset"
    /\ result.kind = "ok"
    /\ disk = <<store>>
    /\ store.Metadata.PruneCount > 0
    /\ Count(store) = 0

\* C24: saving a store and then loading it with the same directory key
\* returns a store with the same message sequence (roles, contents,
\* timestamps, order), the same metadata and the same analysis snapshot.
C24_SaveLoadRoundTrip ==
    [][(pc = "st_saved" /\ pc' = "st_loaded") =>
          /\ store'.Messages = store.Messages
          /\ store'.Metadata = store.Metadata
          /\ store'.AnalysisCache = store.AnalysisCache]_vars

\* the message AddMessage stored last, when the last call was AddMessage
LastStored == store.Messages[Count(store)]

\* C25: AddMessage caps each message: content longer than the per-message
\* limit is stored truncated, so that no stored message is longer than the
\* limit plus the truncation notice; content within the limit is stored
\* unchanged.
C25_AddMessageCaps ==
    /\ \A i \in 1..Count(store) :
          store.Messages[i].Content.len
             <= MaxMessageLength + TruncationNoticeMax
    /\ (pc = "st" /\ unit # NoCall
           /\ unit.msg.Content.len <= MaxMessageLength)
          => LastStored.Content = unit.msg.Content

\* C26: the analysis snapshot counts against the budget: attaching a
\* snapshot with non-empty text to a store strictly increases the store's
\* size estimate, and the snapshot's own estimate never exceeds the store's
\* total estimate.
C26_SnapshotCounts ==
    /\ [][(store.AnalysisCache = <<>> /\ store'.AnalysisCache # <<>>) =>
             EstimateTokens(store') > EstimateTokens(store)]_vars
    /\ [](store.AnalysisCache # <<>> =>
             estimateAnalysisCacheTokens(store) <= EstimateTokens(store))

\* a step of the run that is a run of the Emergency Guard
IsGuardStep ==
    \/ pc = "q_resp" /\ pc' # pc
    \/ /\ pc \in {"loaded", "analyzed"}
       /\ pc' \in {"q_guarded", "exited"}
       /\ op.kind = "query"

\* the guard's condition for discarding the snapshot, as claimed
ShedsSnapshot(s) ==
    /\ EstimateTokens(s) > 37500 \/ Count(s) > 150
    /\ s.AnalysisCache # <<>>
    /\ 2 * estimateAnalysisCacheTokens(s) > EstimateTokens(s)

C28_SheddingLowersTotal ==
    (GuardReturned /\ ShedsSnapshot(guardIn[1])) =>
        LET before == guardIn[1]
            rechecked == EstimateTokens(guardShed(before))
        IN /\ rechecked = EstimateTokens(before)
                             - estimateAnalysisCacheTokens(before)
           /\ (rechecked <= emergencyTokens
                  /\ Count(before) <= emergencyMessages)
                 => store.Messages = before.Messages

\* C29: the Emergency Guard never calls the generation service: in both of
\* its runs per query, any message removal it performs is done by pruneHard
\* only, even when a client is available.
C29_GuardIsDeterministic ==
    [][IsGuardStep =>
          /\ ai' = NoAI
          /\ pc' # "p_ai"
          /\ pruneIn' = pruneIn
          /\ \/ store' = guardShed(store)
             \/ /\ ~pruneHardPanics(guardShed(store))
                /\ store' = pruneHard(guardShed(store))]_vars

\* the second guard run of a query removed messages although a client was
\* at hand
C29_Witness ==
    /\ pc = "q_guarded2"
    /\ clientAvailable
    /\ Count(store) < Count(guardIn[1])
    /\ hardRun # <<>> /\ hardRun[1].out = store

\* C30: configuration values are resolved with the priority environment
\* variable > local ./.env > global ~/.config/ask/.env: for each of
\* ASK_API_KEY, ASK_MODEL, ASK_OS and ASK_API_URL, a value in the local file
\* overrides a different value in the global file, and an environment
\* variable overrides both.
C30_ConfigPriority ==
    (pc = "cfg" /\ unit.ret # <<>>) =>
        \A k \in ConfigKeys :
            LET set(v) == v # <<>> /\ v[1] # ""
            IN /\ set(unit.env[k]) => unit.ret[1][k] = unit.env[k][1]
               /\ (~set(unit.env[k]) /\ set(unit.local[k])
                      /\ set(unit.global[k]))
                     => unit.ret[1][k] = unit.local[k][1]

\* C31: a configuration error (required credential missing) ends the run
\* with exit status 2 before the context file is read or written and before
\* any request is sent; a context-initialization or reset failure ends with
\* status 3 and a failed query with status 1.
C31_ExitStatusPerCategory ==
    /\ [][ConfigError(result') =>
             /\ result'.exit = 2
             /\ pc' = "exited"
             /\ store' = store /\ disk' = disk
             /\ request' = <<>> /\ response' = <<>>]_vars
    /\ [](ConfigError(result) =>
             /\ request = <<>> /\ response = <<>>
             /\ guardIn = <<>> /\ querySaves = <<>> /\ output = <<>>)
    /\ [](result.kind = "err" =>
             /\ result.err \in {"failed to load context",
                                "failed to save reset context"}
                  => result.exit = 3
             /\ result.err \in {"API request failed",
                                "failed to save context"}
                  => result.exit = 1
             /\ result.exit \in {1, 2, 3}
             /\ result.exit = 2 <=> ConfigError(result))

\* a run with an invalid configuration ended while a context file that
\* holds messages was on disk
C31_Witness ==
    /\ pc = "exited"
    /\ ConfigError(result)
    /\ result.exit = 2
    /\ Loads(disk) /\ disk # <<>>
    /\ disk[1].Messages # <<>>
    /\ op.kind = "query"

\* C32: the info operation reports the store's metadata and includes the
\* pruning note exactly when ShouldPrune() is true for the current store; it
\* changes nothing in the store, sends no request and persists nothing.
C32_InfoReportsAndChangesNothing ==
    /\ [][(pc = "loaded" /\ op.kind = "info") =>
             /\ pc' = "exited" /\ result'.exit = 0
             /\ Len(output') = 1
             /\ output'[1].Messages = store.Metadata.TotalMessages
             /\ output'[1].Tokens = store.Metadata.TotalTokensEstimate
             /\ output'[1].PruneCount = store.Metadata.PruneCount
             /\ output'[1].LastAnalysis = store.LastAnalysisAt
             /\ output'[1].LastUpdated = store.UpdatedAt
             /\ (output'[1].PruningNote # "") <=> ShouldPrune(store, now)
             /\ output'[1].PruningNote = ShouldPruneReason(store, now)
             /\ store' = store /\ disk' = disk]_vars
    /\ [](op.kind = "info" =>
             /\ request = <<>> /\ response = <<>>
             /\ querySaves = <<>> /\ guardIn = <<>> /\ pruneIn = <<>>)
    /\ [][op.kind = "info" => disk' = disk /\ (pc # "idle" => store' = store)]_vars

\* info was given for a store that only a soft limit asks to prune
C32_Witness ==
    /\ pc = "exited"
    /\ op.kind = "info"
    /\ output # <<>>
    /\ Mentions(output[1].PruningNote, "soft limit")
    /\ store.Messages # <<>>

\* info was given for a store that needs no pruning: no note
C32_WitnessNoNote ==
    /\ pc = "exited"
    /\ op.kind = "info"
    /\ output # <<>>
    /\ output[1].PruningNote = ""
    /\ store.Messages # <<>>

\* C33: the indices the service returns are applied to the same message
\* sequence they were issued for: the labels of the transcript are positions
\* in the full stored sequence (system messages are skipped in the listing
\* but counted in the numbering), and between building the request and
\* removing messages the stored sequence is not changed.
C33_IndicesMatchSequence ==
    /\ [](pc = "p_ai" =>
             /\ pruneIn = <<store>>
             /\ LET msgs == store.Messages
                    L == PromptLabels(msgs)
                IN /\ \A k \in 1..Len(L) :
                         /\ L[k] \in 0..(Len(msgs) - 1)
                         /\ msgs[L[k] + 1].Role # "system"
                         /\ k > 1 => L[k - 1] < L[k]
                   /\ \A i \in 1..Len(msgs) :
                         msgs[i].Role # "system"
                            => \E k \in 1..Len(L) : L[k] = i - 1)
    /\ [][(/\ pc = "p_ai" /\ pc' = "q_pruned"
            /\ ai'.kind = "array" /\ Len(ai'.indices) > 0) =>
             /\ pruneIn' = pruneIn
             /\ store'.Messages =
                    removeMessagesByIndices(pruneIn[1].Messages, ai'.indices)
             /\ \A k \in 1..Len(PromptLabels(pruneIn[1].Messages)) :
                    LET l == PromptLabels(pruneIn[1].Messages)[k]
                        before == Cardinality({j \in IndexSet(ai'.indices) :
                                                 j >= 0 /\ j < l})
                    IN l \notin IndexSet(ai'.indices)
                         => store'.Messages[l + 1 - before]
                               = pruneIn[1].Messages[l + 1]]_vars

\* the adaptive request was answered with indices for a store that holds
\* system messages before listed ones, and a listed message was removed
C33_Witness ==
    /\ pc = "q_pruned"
    /\ ai.kind = "array" /\ Len(ai.indices) > 0
    /\ pruneRet = "nil"
    /\ pruneIn # <<>>
    /\ pruneIn[1].Messages[1].Role = "system"
    /\ \E k \in 1..Len(PromptLabels(pruneIn[1].Messages)) :
          PromptLabels(pruneIn[1].Messages)[k] \in IndexSet(ai.indices)
    /\ Len(store.Messages) < Len(pruneIn[1].Messages)

\* C34: two invocations against the same directory that interleave load,
\* mutate and persist without locking end last-writer-wins: the persisted
\* store equals the in-memory store of the invocation that saved last, and
\* the other invocation's exchange is present only if the last writer loaded
\* after the other one saved.
LogIndex(i, ev) ==
    IF \E k \in 1..Len(querySaves) : querySaves[k] = Event(i, ev)
    THEN CHOOSE k \in 1..Len(querySaves) : querySaves[k] = Event(i, ev)
    ELSE 0

HoldsExchange(doc, i) ==
    \E k \in 1..Len(doc.Messages) : doc.Messages[k].Content = RaceQuery(i)

C34_LastWriterWins ==
    (/\ \A i \in Procs : pc[i] = "exited"
     /\ \E i \in Procs : LogIndex(i, "save") > 0)
    => LET w == CHOOSE i \in Procs :
                    \A j \in Procs : LogIndex(j, "save") <= LogIndex(i, "save")
           o == CHOOSE j \in Procs : j # w
       IN /\ ReadFile(disk) = <<store[w]>>
          /\ HoldsExchange(store[w], o)
                => /\ LogIndex(o, "save") > 0
                   /\ LogIndex(o, "save") < LogIndex(w, "load")

\* C35: ChatCompletion makes at most 3 attempts: it returns the response
\* of the first attempt that succeeds and makes no further attempt after it,
\* and it returns an error if and only if all 3 attempts fail; it always
\* terminates.
C35_AtMostThreeAttempts ==
    /\ [](/\ Len(unit.log) <= 3
          /\ \A k \in 1..(Len(unit.log) - 1) : unit.log[k].kind = "err"
          /\ unit.ret # <<>> =>
                /\ Len(unit.log) >= 1
                /\ unit.ret[1].kind = "ok" =>
                      /\ unit.log[Len(unit.log)].kind = "ok"
                      /\ unit.ret[1].text = unit.log[Len(unit.log)].text
                /\ unit.ret[1].kind = "err" <=>
                      /\ Len(unit.log) = 3
                      /\ \A k \in 1..3 : unit.log[k].kind = "err")
    /\ [][unit.ret # <<>> => unit' = unit]_vars
    /\ <>(unit.ret # <<>>)

\* ChatCompletion returned the response of its second attempt
C35_Witness ==
    /\ pc = "cc_returned"
    /\ Len(unit.log) = 2
    /\ unit.log[1].kind = "err"
    /\ unit.ret # <<>>
    /\ unit.ret[1].kind = "ok"

\* ChatCompletion gave up after three failed attempts
C35_WitnessError ==
    /\ pc = "cc_returned"
    /\ Len(unit.log) = 3
    /\ unit.ret # <<>>
    /\ unit.ret[1].kind = "err"

\* C36: a failed directory analysis does not stop the query: when Analyze
\* fails the query is still executed, and a snapshot is placed in the store
\* (with its last-analysis timestamp) only when the analysis itself
\* succeeded; Query never runs the analyzer on its own.
AnalysisItselfFailed(out) ==
    out = <<"Warning: Analysis failed: analysis failed">>

C36_FailedAnalysisKeepsQuery ==
    /\ [][(pc = "loaded" /\ op.kind = "query" /\ op.analyze) =>
             /\ pc' = "analyzed" /\ result' = NoResult
             /\ store'.Messages = store.Messages
             /\ IF AnalysisItselfFailed(output')
                THEN store' = store /\ disk' = disk
                ELSE /\ store'.AnalysisCache # <<>>
                     /\ store'.AnalysisCache[1] \in AnalyzerResults
                     /\ store'.LastAnalysisAt = <<now>>]_vars
    /\ [][pc = "analyzed" => guardIn' = <<store>> /\ diskAtQuery' = disk]_vars
    /\ [][pc \notin {"idle", "loaded"} =>
             /\ store'.AnalysisCache \in {store.AnalysisCache, <<>>}
             /\ store'.LastAnalysisAt \in {store.LastAnalysisAt, <<>>}]_vars
    /\ [][(pc = "loaded" /\ op.kind = "query" /\ ~op.analyze) =>
             /\ store'.AnalysisCache \in {store.AnalysisCache, <<>>}
             /\ guardIn' = <<store>>]_vars

\* the analysis failed and the query was answered and saved all the same
C36_Witness ==
    /\ QuerySucceeded
    /\ op.analyze
    /\ AnalysisItselfFailed(output)
    /\ store.AnalysisCache = <<>>
    /\ Len(store.Messages) >= 2

\* C37: PruneCount never decreases: over any sequence of Query, Reset,
\* Analyze and info operations, and across save and reload, the prune
\* counter of a directory's store is monotonically non-decreasing, and it
\* changes only in a step that removes at least one message.
PruneCountOf(file) ==
    IF file = <<>> THEN 0 ELSE file[1].Metadata.PruneCount

C37_PruneCountMonotone ==
    /\ [][(pc = "idle" /\ pc' = "loaded") =>
             store'.Metadata.PruneCount = PruneCountOf(disk)]_vars
    /\ [][pc # "idle" =>
             store'.Metadata.PruneCount >= store.Metadata.PruneCount]_vars
    /\ [][(Loads(disk) /\ disk' # disk) =>
             /\ Loads(disk')
             /\ PruneCountOf(disk') >= PruneCountOf(disk)
             /\ PruneCountOf(disk') = store'.Metadata.PruneCount]_vars
    /\ [][(pc # "idle"
            /\ store'.Metadata.PruneCount # store.Metadata.PruneCount) =>
             Len(store'.Messages) < Len(store.Messages)]_vars

\* C38: pruning only deletes: after any prune (adaptive with any index
\* array, deterministic, or emergency) the message sequence is a subsequence
\* of the sequence before it, with no message altered, duplicated, reordered
\* or added; for the deterministic strategy the result is a contiguous
\* suffix of the previous sequence.
RECURSIVE SubseqFrom(_, _, _, _)
\* b[k..] is a subsequence of a[i..]
SubseqFrom(a, b, i, k) ==
    IF k > Len(b) THEN TRUE
    ELSE IF Len(a) - i < Len(b) - k THEN FALSE
    ELSE IF a[i] = b[k] THEN SubseqFrom(a, b, i + 1, k + 1)
    ELSE SubseqFrom(a, b, i + 1, k)

IsSubsequence(b, a) == SubseqFrom(a, b, 1, 1)

IsSuffix(b, a) ==
    /\ Len(b) <= Len(a)
    /\ b = SubSeq(a, Len(a) - Len(b) + 1, Len(a))

C38_WitnessHard ==
    /\ pc = "q_pruned"
    /\ ai.kind = "none" /\ pruneRet = "nil"
    /\ pruneIn # <<>>
    /\ Len(store.Messages) < Len(pruneIn[1].Messages)
    /\ Len(store.Messages) >= 2

\* C39: in every reachable state of a store that started consistent, the
\* last-analysis timestamp is set if and only if an analysis snapshot is
\* present: Analyze sets both, Reset and the Emergency Guard clear both, and
\* no other operation changes either.
StampedIffSnapshot(s) == (s.LastAnalysisAt # <<>>) <=> (s.AnalysisCache # <<>>)

C39_TimestampIffSnapshot ==
    /\ [](StampedIffSnapshot(store))
    /\ []((Loads(disk) /\ disk # <<>>) => StampedIffSnapshot(disk[1]))
    /\ [][(pc # "idle"
            /\ \/ store'.AnalysisCache # store.AnalysisCache
               \/ store'.LastAnalysisAt # store.LastAnalysisAt) =>
             \/ /\ pc = "loaded" /\ op.kind = "query" /\ op.analyze
                /\ store'.AnalysisCache # <<>>
                /\ store'.LastAnalysisAt = <<now>>
             \/ /\ pc = "loaded" /\ op.kind = "reset"
                /\ store'.AnalysisCache = <<>>
                /\ store'.LastAnalysisAt = <<>>
             \/ /\ IsGuardStep
                /\ store'.AnalysisCache = <<>>
                /\ store'.LastAnalysisAt = <<>>]_vars

\* Analyze placed a snapshot and its timestamp in a store that had neither
C39_Witness ==
    /\ pc = "analyzed"
    /\ store.AnalysisCache # <<>>
    /\ store.LastAnalysisAt = <<now>>
    /\ diskAtQuery = <<>>
    /\ Loads(disk) /\ disk # <<>>
    /\ \/ disk[1].AnalysisCache = <<>>
       \/ disk[1].LastAnalysisAt # <<now>>
    /\ store.Messages # <<>>

\* C40: when its trigger does not hold (size estimate at most 37500 and at
\* most 150 messages), the Emergency Guard leaves the whole store unchanged:
\* messages, analysis snapshot, last-analysis timestamp and all metadata
\* including PruneCount.
C40_QuietGuardChangesNothing ==
    [][(/\ IsGuardStep
        /\ EstimateTokens(store) <= 37500
        /\ Len(store.Messages) <= 150) =>
          /\ store' = store
          /\ pc' # "exited"
          /\ hardRun' = hardRun]_vars

\* the guard ran after the response on a store above the hard ceiling of
\* messages that holds a snapshot, and left it alone
C40_Witness ==
    /\ pc = "q_guarded2"
    /\ guardIn = <<store>>
    /\ Len(store.Messages) >= MaxMessages
    /\ Len(store.Messages) <= 150
    /\ EstimateTokens(store) <= 37500
    /\ store.AnalysisCache # <<>>
    /\ store.Metadata.PruneCount > 0

====
